---- MODULE Spec2Model ----
(***************************************************************************)
(* Model of the server-authoritative RTS simulation core: the GameEngine   *)
(* tick loop, its command handlers, the economy, movement and combat       *)
(* systems and the A* pathfinder.                                          *)
(*                                                                         *)
(* Numbers.  Entity coordinates, speeds, ranges and path costs are IEEE    *)
(* doubles in the source; here they are fixed-point integers in units of   *)
(* 1/Scale tile (Math.sqrt becomes the integer square root).  Path         *)
(* waypoints and footprints are whole tiles.  buildProgress is counted in  *)
(* construction ticks (see BuildDoneTicks).                                *)
(*                                                                         *)
(* Optional fields.  `undefined` is 0 for an id, << >> for a path, a       *)
(* training queue, a pendingBuild and a rallyPoint (a sequence of at most  *)
(* one record), -1 for buildProgress and miningProgress.                   *)
(***************************************************************************)
EXTENDS Integers, Sequences, FiniteSets, TLC

\* ------------------------------------------------------------------ bounds

\* Side of the square tile map (the source scales 60..100; fixtures use 30).
MapSize == 12
\* Commands accepted by handleCommand over one run.
MaxCommands == 2
\* Commands buffered in commandQueue at one time.
MaxQueue == 2
\* Ticks a match is followed for.
MaxTicks == 60
\* Ticks during which players send commands.
CommandWindow == 2
\* Distinct values uuid() can return at one call.
UuidChoices == 2
\* Ticks two matches sharing a process are followed for.
SharedTicks == 3
\* Side of the square of tiles that may be walkable in the grids findPath
\* is called on (the tiles around it are rock).
PathSide == 3
\* Blocked tiles inside that square.
MaxBlocked == 3
\* Units of one squad in the scenes processCombat is called on.
MaxAttackers == 10
\* How far short of the next tile a unit of the movement scenes stands,
\* in fixed-point units.
MoveGap == 100

\* --------------------------------------------------------------- constants

\* Fixed-point resolution: 1 tile = Scale units.
Scale == 1000
\* Math.SQRT2 in fixed point.
SQRT2 == 1414
\* The value NaN of a gold balance (see getUpgradeCost).
NaN == -1000000000

STARTING_GOLD == 300
HOME_BASE_HP == 2000
HOME_BASE_SUPPLY == 10
HOME_BASE_TILE_WIDTH == 3
HOME_BASE_TILE_HEIGHT == 3
HOME_BASE_DAMAGE == 30
HOME_BASE_RANGE == 7000
HOME_BASE_ATTACK_COOLDOWN == 20

WORKER_COST == 50
WORKER_SUPPLY == 1
WORKER_HP == 60
WORKER_SPEED == 150
WORKER_CARRY_CAPACITY == 10
WORKER_MINE_TICKS == 40
WORKER_TRAIN_TICKS == 30

INFANTRY_COST == 100
INFANTRY_SUPPLY == 2
INFANTRY_HP == 120
INFANTRY_SPEED == 120
INFANTRY_DAMAGE == 12
INFANTRY_RANGE == 1500
INFANTRY_ATTACK_COOLDOWN == 15
INFANTRY_TRAIN_TICKS == 40
INFANTRY_AGGRO_RANGE == 6000
\* FOCUS_FIRE_BONUS = 0.15, in percent.
FOCUS_FIRE_BONUS == 15

ARCHER_COST == 150
ARCHER_SUPPLY == 3
ARCHER_HP == 80
ARCHER_SPEED == 110
ARCHER_DAMAGE == 10
ARCHER_RANGE == 5000
ARCHER_ATTACK_COOLDOWN == 18
ARCHER_TRAIN_TICKS == 50
ARCHER_AGGRO_RANGE == 7000

CAVALRY_COST == 200
CAVALRY_SUPPLY == 4
CAVALRY_HP == 130
CAVALRY_SPEED == 240
CAVALRY_DAMAGE == 14
CAVALRY_RANGE == 1500
CAVALRY_ATTACK_COOLDOWN == 14
CAVALRY_TRAIN_TICKS == 55
CAVALRY_AGGRO_RANGE == 7000

BALLISTA_COST == 250
BALLISTA_SUPPLY == 5
BALLISTA_HP == 50
BALLISTA_SPEED == 60
BALLISTA_DAMAGE == 40
BALLISTA_RANGE == 10000
BALLISTA_ATTACK_COOLDOWN == 30
BALLISTA_TRAIN_TICKS == 70
BALLISTA_AGGRO_RANGE == 12000

HOUSE_COST == 100
HOUSE_HP == 400
HOUSE_SUPPLY == 10
HOUSE_MAX_PER_PLAYER == 5
HOUSE_BUILD_TICKS == 60
HOUSE_TILE_WIDTH == 2
HOUSE_TILE_HEIGHT == 2

BARRACKS_COST == 200
BARRACKS_HP == 600
BARRACKS_BUILD_TICKS == 80
BARRACKS_TILE_WIDTH == 3
BARRACKS_TILE_HEIGHT == 3

RESOURCE_DEPOT_COST == 150
RESOURCE_DEPOT_HP == 500
RESOURCE_DEPOT_BUILD_TICKS == 50
RESOURCE_DEPOT_TILE_WIDTH == 2
RESOURCE_DEPOT_TILE_HEIGHT == 2

TOWER_COST == 100
TOWER_HP == 500
TOWER_BUILD_TICKS == 60
TOWER_TILE_WIDTH == 2
TOWER_TILE_HEIGHT == 2
TOWER_DAMAGE == 15
TOWER_RANGE == 7000
TOWER_ATTACK_COOLDOWN == 20

ARMORY_COST == 250
ARMORY_HP == 600
ARMORY_BUILD_TICKS == 80
ARMORY_TILE_WIDTH == 3
ARMORY_TILE_HEIGHT == 3

UPGRADE_BASE_COST == 100
UPGRADE_COST_SCALE == 2
\* UPGRADE_DAMAGE_BONUS = 0.12 and UPGRADE_HP_BONUS = 0.10, in percent.
UPGRADE_DAMAGE_BONUS == 12
UPGRADE_HP_BONUS == 10

MAX_BUILD_DISTANCE == 3000

GOLD_MINE_STARTING_GOLD == 2000
GOLD_MINE_MAX_WORKERS == 1
GOLD_MINE_TILE_WIDTH == 2
GOLD_MINE_TILE_HEIGHT == 2

\* BotAI.DECISION_INTERVAL
DECISION_INTERVAL == 5
\* movement.ts epsilon = 0.01 tile.
MOVE_EPSILON == 10
\* processGathering: a worker within 3.0 tiles of the mine centre starts mining.
MINE_REACH == 3000

\* -------------------------------------------------------------- arithmetic

Abs(a) == IF a < 0 THEN -a ELSE a
Min(a, b) == IF a < b THEN a ELSE b
Max(a, b) == IF a > b THEN a ELSE b

RECURSIVE IsqrtBits(_, _, _)
\* Largest r with r*r <= n, found bit by bit from the step `bit` downwards.
IsqrtBits(n, r, bit) ==
  IF bit = 0 THEN r
  ELSE IF (r + bit) * (r + bit) <= n THEN IsqrtBits(n, r + bit, bit \div 2)
       ELSE IsqrtBits(n, r, bit \div 2)

\* Math.sqrt on fixed-point squares: floor of the square root.
Sqrt(n) == IF n <= 0 THEN 0 ELSE IsqrtBits(n, 0, 16384)

\* Math.round of a fixed-point coordinate, as a whole tile.
RoundTile(v) == (v + (Scale \div 2)) \div Scale

\* Math.round(num / den) for den > 0: floor(num/den + 1/2).
RoundDiv(num, den) == (2 * num + den) \div (2 * den)

\* Euclidean distance between fixed-point points.
Dist(ax, ay, bx, by) == Sqrt((ax - bx) * (ax - bx) + (ay - by) * (ay - by))

RECURSIVE Pow(_, _)
Pow(b, e) == IF e <= 0 THEN 1 ELSE b * Pow(b, e - 1)

\* Sum of a sequence of integers.
RECURSIVE SeqSum(_)
SeqSum(s) == IF s = << >> THEN 0 ELSE Head(s) + SeqSum(Tail(s))

\* Gold arithmetic with NaN (every comparison with NaN is false, every sum NaN).
GoldLt(a, b) == a # NaN /\ b # NaN /\ a < b
GoldGe(a, b) == a # NaN /\ b # NaN /\ a >= b
GoldAdd(a, b) == IF a = NaN \/ b = NaN THEN NaN ELSE a + b
GoldSub(a, b) == IF a = NaN \/ b = NaN THEN NaN ELSE a - b

\* ---------------------------------------------------------------- geometry

Pt(x, y) == [x |-> x, y |-> y]

InMap(x, y) == x >= 0 /\ x < MapSize /\ y >= 0 /\ y < MapSize

AllTiles == {Pt(x, y) : x \in 0 .. MapSize - 1, y \in 0 .. MapSize - 1}

\* Entity predicate `entity.tileWidth && entity.tileHeight`.
HasFootprint(e) == e.tileWidth # 0 /\ e.tileHeight # 0

\* Tiles of a w x h footprint whose top-left tile is (tx, ty).
FootprintTiles(tx, ty, w, h) ==
  {Pt(tx + dx, ty + dy) : dx \in 0 .. w - 1, dy \in 0 .. h - 1}

\* The set of indices of a sequence.
Idx(s) == 1 .. Len(s)

\* buildWalkableGrid: the walkable tiles, as a set.  A tile is walkable when
\* it is grass and under no building footprint and no gold mine.
buildWalkableGrid(g) ==
  LET buildings == UNION {FootprintTiles(RoundTile(g.entities[i].x), RoundTile(g.entities[i].y),
                                         g.entities[i].tileWidth, g.entities[i].tileHeight) :
                          i \in {j \in Idx(g.entities) : HasFootprint(g.entities[j])}}
      mines == UNION {FootprintTiles(g.goldMines[i].x, g.goldMines[i].y,
                                     GOLD_MINE_TILE_WIDTH, GOLD_MINE_TILE_HEIGHT) :
                      i \in Idx(g.goldMines)}
  IN  (AllTiles \ g.nonGrass) \ (buildings \cup mines)

\* The perimeter offsets of a w x h footprint in the order of the two loops
\* `for dx = -1..w` / `for dy = -1..h`, inner tiles skipped.
RECURSIVE PerimeterFrom(_, _, _, _)
PerimeterFrom(w, h, dx, dy) ==
  IF dx > w THEN << >>
  ELSE IF dy > h THEN PerimeterFrom(w, h, dx + 1, -1)
  ELSE (IF dx >= 0 /\ dx < w /\ dy >= 0 /\ dy < h THEN << >> ELSE << Pt(dx, dy) >>)
       \o PerimeterFrom(w, h, dx, dy + 1)

RECURSIVE KeepWalkable(_, _, _, _)
KeepWalkable(walkable, tx, ty, offs) ==
  IF offs = << >> THEN << >>
  ELSE LET p == Pt(tx + Head(offs).x, ty + Head(offs).y)
       IN  (IF p \in walkable THEN << p >> ELSE << >>)
           \o KeepWalkable(walkable, tx, ty, Tail(offs))

\* findAllAdjacentWalkable: walkable tiles around a footprint at fixed-point
\* position (x, y); a missing tileWidth/tileHeight defaults to 2.
findAllAdjacentWalkable(walkable, x, y, tileWidth, tileHeight) ==
  LET w == IF tileWidth = 0 THEN 2 ELSE tileWidth
      h == IF tileHeight = 0 THEN 2 ELSE tileHeight
  IN  KeepWalkable(walkable, RoundTile(x), RoundTile(y), PerimeterFrom(w, h, -1, -1))

\* findAdjacentWalkable: the first candidate, or << >> for null.
findAdjacentWalkable(walkable, x, y, tileWidth, tileHeight) ==
  LET c == findAllAdjacentWalkable(walkable, x, y, tileWidth, tileHeight)
  IN  IF Len(c) > 0 THEN << c[1] >> ELSE << >>

\* ------------------------------------------------------------ pathfinding

\* 8-directional neighbours in the order of `dirs`: dx, dy, cost.
Dirs ==
  << <<0, -1, Scale>>, <<0, 1, Scale>>, <<-1, 0, Scale>>, <<1, 0, Scale>>,
     <<-1, -1, SQRT2>>, <<1, -1, SQRT2>>, <<-1, 1, SQRT2>>, <<1, 1, SQRT2>> >>

\* Octile distance heuristic.
heuristic(ax, ay, bx, by) ==
  LET dx == Abs(ax - bx)
      dy == Abs(ay - by)
  IN  Max(dx, dy) * Scale + (SQRT2 - Scale) * Min(dx, dy)

\* key(x, y) = y * width + x
key(x, y) == y * MapSize + x

\* Index of the open node with the lowest f (the first one on ties).
RECURSIVE BestIdx(_, _, _)
BestIdx(open, i, best) ==
  IF i > Len(open) THEN best
  ELSE BestIdx(open, i + 1, IF open[i].f < open[best].f THEN i ELSE best)

\* open.pop() alone: the last node is dropped instead of the best one.
PopOnly(open, b) == SubSeq(open, 1, Len(open) - 1)

\* open[bestIdx] = open[open.length - 1]; open.pop()
RemoveAt(open, b) ==
  LET n == Len(open)
  IN  IF b = n THEN SubSeq(open, 1, n - 1)
      ELSE SubSeq([open EXCEPT ![b] = open[n]], 1, n - 1)

\* The neighbour loop of one expansion: a is [open, gScores].
RECURSIVE Expand(_, _, _, _, _, _)
Expand(walkable, ends, cur, closed, a, d) ==
  IF d > Len(Dirs) THEN a
  ELSE
    LET dx == Dirs[d][1]
        dy == Dirs[d][2]
        nx == cur.x + dx
        ny == cur.y + dy
        skip ==
          \/ ~InMap(nx, ny)
          \/ Pt(nx, ny) \notin walkable
          \/ /\ dx # 0 /\ dy # 0
             /\ (Pt(cur.x, cur.y + dy) \notin walkable \/ Pt(cur.x + dx, cur.y) \notin walkable)
          \/ key(nx, ny) \in closed
        tentativeG == cur.g + Dirs[d][3]
        nk == key(nx, ny)
        worse == nk \in DOMAIN a.gScores /\ tentativeG >= a.gScores[nk]
        node == [x |-> nx, y |-> ny, g |-> tentativeG,
                 f |-> tentativeG + heuristic(nx, ny, ends.x, ends.y),
                 path |-> Append(cur.path, Pt(nx, ny))]
    IN  IF skip \/ worse THEN Expand(walkable, ends, cur, closed, a, d + 1)
        ELSE Expand(walkable, ends, cur, closed,
                    [open |-> Append(a.open, node),
                     gScores |-> [k \in DOMAIN a.gScores \cup {nk} |->
                                    IF k = nk THEN tentativeG ELSE a.gScores[k]]],
                    d + 1)

\* The `while (open.length > 0)` loop.  A node carries the route from the
\* start to it (the parent chain, reversed, without the start tile).
RECURSIVE AStar(_, _, _, _, _)
AStar(walkable, ends, open, closed, gScores) ==
  IF Len(open) = 0 THEN << >>
  ELSE
    LET b == BestIdx(open, 2, 1)
        cur == open[b]
        rest == RemoveAt(open, b)
    IN  IF cur.x = ends.x /\ cur.y = ends.y THEN cur.path
        ELSE IF key(cur.x, cur.y) \in closed THEN AStar(walkable, ends, rest, closed, gScores)
        ELSE LET a == Expand(walkable, ends, cur, closed \cup {key(cur.x, cur.y)},
                             [open |-> rest, gScores |-> gScores], 1)
             IN  AStar(walkable, ends, a.open, closed \cup {key(cur.x, cur.y)}, a.gScores)

\* A route that is the destination alone.
Beeline(walkable, start, ends) == << ends >>

\* findPath(walkable, start, end): the route as a sequence of tiles, without
\* the start and with the destination; << >> when there is none.
findPath(walkable, start, ends) ==
  IF \/ ~InMap(start.x, start.y)
     \/ ~InMap(ends.x, ends.y)
     \/ ends \notin walkable
  THEN << >>
  ELSE IF start.x = ends.x /\ start.y = ends.y THEN << >>
  ELSE AStar(walkable, ends,
             << [x |-> start.x, y |-> start.y, g |-> 0,
                 f |-> heuristic(start.x, start.y, ends.x, ends.y), path |-> << >>] >>,
             {}, (key(start.x, start.y) :> 0))

\* ------------------------------------------------------------ game state

\* An Entity (shared/src/types.ts).  x, y are fixed-point.
Entity(id, type, ownerId, x, y, hp) ==
  [id |-> id, type |-> type, ownerId |-> ownerId, x |-> x, y |-> y,
   hp |-> hp, maxHp |-> hp, state |-> "idle", path |-> << >>, targetId |-> 0,
   trainingQueue |-> << >>, carriedGold |-> 0, buildProgress |-> -1,
   miningProgress |-> -1, tileWidth |-> 0, tileHeight |-> 0,
   pendingBuild |-> << >>, rallyPoint |-> << >>]

\* A GoldMine (createGoldMine); x, y are whole tiles.
GoldMine(id, x, y, gold) ==
  [id |-> id, x |-> x, y |-> y, goldRemaining |-> gold,
   maxWorkers |-> GOLD_MINE_MAX_WORKERS, workerIds |-> << >>]

\* A Player as the constructor initialises it.
Player(gold) ==
  [gold |-> gold, supply |-> 0, maxSupply |-> HOME_BASE_SUPPLY,
   upgrades |-> [infantry |-> 0, archer |-> 0, cavalry |-> 0]]

\* state.entities[id]: the index of the entity, 0 when there is none.
EntIdx(g, id) ==
  IF \E i \in Idx(g.entities) : g.entities[i].id = id
  THEN CHOOSE i \in Idx(g.entities) : g.entities[i].id = id
  ELSE 0

\* state.goldMines.find(m => m.id === id): the index, 0 when there is none.
MineIdx(g, id) ==
  IF \E i \in Idx(g.goldMines) : g.goldMines[i].id = id
  THEN CHOOSE i \in Idx(g.goldMines) : g.goldMines[i].id = id
  ELSE 0

\* uuid(): a fresh identifier; salt is the random part drawn for the step.
Uuid(g) == UuidChoices * g.idc + g.salt + 1

IsUnitType(t) == t \in {"worker", "infantry", "archer", "cavalry", "ballista"}

\* getBuildTicks
getBuildTicks(type) ==
  CASE type = "house" -> HOUSE_BUILD_TICKS
    [] type = "barracks" -> BARRACKS_BUILD_TICKS
    [] type = "resourceDepot" -> RESOURCE_DEPOT_BUILD_TICKS
    [] type = "tower" -> TOWER_BUILD_TICKS
    [] type = "armory" -> ARMORY_BUILD_TICKS
    [] OTHER -> 60

\* The number of `buildProgress += 1 / totalTicks` additions after which the
\* double reaches 1: 1/50 and 1/60 sum to 1 in 50 and 60 additions, 1/80
\* needs 81.
BuildDoneTicks(type) ==
  IF getBuildTicks(type) = 80 THEN 81 ELSE getBuildTicks(type)

\* `e.buildProgress !== undefined && e.buildProgress < 1`
Unfinished(e) == e.buildProgress # -1 /\ e.buildProgress < BuildDoneTicks(e.type)

BuildingTypes == {"house", "barracks", "resourceDepot", "tower", "armory"}

\* getBuildingStats; callers test the type first (the source returns
\* undefined for any other type, and destructuring it throws).
getBuildingStats(type) ==
  CASE type = "house" ->
         [cost |-> HOUSE_COST, hp |-> HOUSE_HP, tileW |-> HOUSE_TILE_WIDTH, tileH |-> HOUSE_TILE_HEIGHT]
    [] type = "barracks" ->
         [cost |-> BARRACKS_COST, hp |-> BARRACKS_HP, tileW |-> BARRACKS_TILE_WIDTH, tileH |-> BARRACKS_TILE_HEIGHT]
    [] type = "resourceDepot" ->
         [cost |-> RESOURCE_DEPOT_COST, hp |-> RESOURCE_DEPOT_HP,
          tileW |-> RESOURCE_DEPOT_TILE_WIDTH, tileH |-> RESOURCE_DEPOT_TILE_HEIGHT]
    [] type = "tower" ->
         [cost |-> TOWER_COST, hp |-> TOWER_HP, tileW |-> TOWER_TILE_WIDTH, tileH |-> TOWER_TILE_HEIGHT]
    [] type = "armory" ->
         [cost |-> ARMORY_COST, hp |-> ARMORY_HP, tileW |-> ARMORY_TILE_WIDTH, tileH |-> ARMORY_TILE_HEIGHT]

\* getUnitHp
getUnitHp(type) ==
  CASE type = "worker" -> WORKER_HP
    [] type = "infantry" -> INFANTRY_HP
    [] type = "archer" -> ARCHER_HP
    [] type = "cavalry" -> CAVALRY_HP
    [] type = "ballista" -> BALLISTA_HP
    [] OTHER -> 100

\* getUnitTrainStats
getUnitTrainStats(type) ==
  CASE type = "worker" -> [cost |-> WORKER_COST, supplyCost |-> WORKER_SUPPLY, trainTicks |-> WORKER_TRAIN_TICKS]
    [] type = "infantry" -> [cost |-> INFANTRY_COST, supplyCost |-> INFANTRY_SUPPLY, trainTicks |-> INFANTRY_TRAIN_TICKS]
    [] type = "archer" -> [cost |-> ARCHER_COST, supplyCost |-> ARCHER_SUPPLY, trainTicks |-> ARCHER_TRAIN_TICKS]
    [] type = "cavalry" -> [cost |-> CAVALRY_COST, supplyCost |-> CAVALRY_SUPPLY, trainTicks |-> CAVALRY_TRAIN_TICKS]
    [] type = "ballista" -> [cost |-> BALLISTA_COST, supplyCost |-> BALLISTA_SUPPLY, trainTicks |-> BALLISTA_TRAIN_TICKS]
    [] OTHER -> [cost |-> 0, supplyCost |-> 0, trainTicks |-> 0]

\* An upgrade price that does not grow with the level.
FlatCost(currentLevel) == UPGRADE_BASE_COST

\* getUpgradeCost: Math.round(UPGRADE_BASE_COST * UPGRADE_COST_SCALE ^ level).
getUpgradeCost(currentLevel) == UPGRADE_BASE_COST * Pow(UPGRADE_COST_SCALE, currentLevel)

\* Math.round(base * getUpgradeHpMultiplier(level))
UpgradedHp(base, level) ==
  RoundDiv(base * Pow(100 + UPGRADE_HP_BONUS, level), Pow(100, level))

\* getPlayerUpgradeLevel / getAttackerUpgradeLevel
getPlayerUpgradeLevel(player, unitType) ==
  CASE unitType = "infantry" -> player.upgrades.infantry
    [] unitType = "archer" -> player.upgrades.archer
    [] unitType = "cavalry" -> player.upgrades.cavalry
    [] OTHER -> 0

\* The supply cost recalculateSupply charges for a unit type.
UnitSupply(type) ==
  CASE type = "worker" -> 1
    [] type = "infantry" -> 2
    [] type = "archer" -> 3
    [] type = "cavalry" -> 4
    [] OTHER -> 5

\* The loop of recalculateSupply over the entities from index i.
RECURSIVE SupplyLoop(_, _, _)
SupplyLoop(players, ents, i) ==
  IF i > Len(ents) THEN players
  ELSE
    LET e == ents[i]
        o == e.ownerId
    IN  IF o \notin DOMAIN players THEN SupplyLoop(players, ents, i + 1)
        ELSE IF e.type = "homeBase" /\ e.hp > 0
          THEN SupplyLoop([players EXCEPT ![o].maxSupply = @ + HOME_BASE_SUPPLY], ents, i + 1)
        ELSE IF e.type = "house" /\ e.hp > 0 /\ ~Unfinished(e)
          THEN SupplyLoop([players EXCEPT ![o].maxSupply = @ + HOUSE_SUPPLY], ents, i + 1)
        ELSE IF IsUnitType(e.type)
          THEN SupplyLoop([players EXCEPT ![o].supply = @ + UnitSupply(e.type)], ents, i + 1)
        ELSE SupplyLoop(players, ents, i + 1)

\* recalculateSupply: maxSupply and supply of every player, recomputed from
\* the entities.
recalculateSupply(g) ==
  [g EXCEPT !.players =
     SupplyLoop([p \in DOMAIN g.players |->
                   [g.players[p] EXCEPT !.maxSupply = 0, !.supply = 0]],
                g.entities, 1)]

\* ------------------------------------------------------------ economy.ts

Throw(g) == [g EXCEPT !.thrown = TRUE]

\* Map.set / Map.delete on the module-level timer and cooldown maps.
MapSet(m, k, v) == [i \in DOMAIN m \cup {k} |-> IF i = k THEN v ELSE m[i]]
MapDelete(m, k) == [i \in DOMAIN m \ {k} |-> m[i]]

\* Math.round(entity.x), Math.round(entity.y)
TileOf(e) == Pt(RoundTile(e.x), RoundTile(e.y))

\* handleTrainUnit
handleTrainUnit(g, playerId, buildingId, unitType) ==
  LET bi == EntIdx(g, buildingId)
      building == g.entities[bi]
      player == g.players[playerId]
      stats == getUnitTrainStats(unitType)
  IN  IF bi = 0 \/ building.ownerId # playerId THEN g
      ELSE IF playerId \notin DOMAIN g.players THEN g
      ELSE IF unitType = "worker" /\ building.type # "homeBase" THEN g
      ELSE IF unitType \in {"infantry", "archer", "cavalry", "ballista"}
              /\ building.type # "barracks" THEN g
      ELSE IF stats.cost <= 0 THEN g
      ELSE IF GoldLt(player.gold, stats.cost) THEN g
      ELSE IF player.supply + stats.supplyCost > player.maxSupply THEN g
      ELSE IF Unfinished(building) THEN g
      ELSE [g EXCEPT
              !.players[playerId].gold = GoldSub(@, stats.cost),
              !.players[playerId].supply = @ + stats.supplyCost,
              !.entities[bi].trainingQueue =
                 Append(@, [unitType |-> unitType, ticksRemaining |-> stats.trainTicks]),
              !.entities[bi].state = "training"]

\* isPlacementValid, for whole-tile x and y (the caller throws on others).
isPlacementValid(g, x, y, tileW, tileH) ==
  \A t \in FootprintTiles(x, y, tileW, tileH) :
     /\ InMap(t.x, t.y)
     /\ t \notin g.nonGrass
     /\ \A i \in Idx(g.entities) :
          LET e == g.entities[i]
          IN  HasFootprint(e) =>
                ~(/\ t.x * Scale >= e.x /\ t.x * Scale < e.x + e.tileWidth * Scale
                  /\ t.y * Scale >= e.y /\ t.y * Scale < e.y + e.tileHeight * Scale)

\* placeBuilding
placeBuilding(g, ownerId, buildingType, x, y, hp, tileW, tileH) ==
  [g EXCEPT
     !.entities = Append(@,
        [Entity(Uuid(g), buildingType, ownerId, x * Scale, y * Scale, hp)
           EXCEPT !.state = "building", !.buildProgress = 0,
                  !.tileWidth = tileW, !.tileHeight = tileH]),
     !.idc = @ + 1]

\* `Math.sqrt(dx^2 + dy^2) <= r`, compared on the squares.
Within(ax, ay, bx, by, r) ==
  (ax - bx) * (ax - bx) + (ay - by) * (ay - by) <= r * r

\* A distance test that every worker passes, wherever it stands.
AnyDistance(unit, bx, by, bw, bh, r) == TRUE

\* `distToFootprint(unit, bx, by, bw, bh) <= r`
FootprintWithin(unit, bx, by, bw, bh, r) ==
  LET cx == Max(bx * Scale, Min((bx + bw - 1) * Scale, unit.x))
      cy == Max(by * Scale, Min((by + bh - 1) * Scale, unit.y))
  IN  Within(unit.x, unit.y, cx, cy, r)

\* The deferred branch of handleBuildStructure (lines 449-479), after the
\* cost has been deducted.
BuildDeferred(g, playerId, wi, buildingType, x, y, stats) ==
  LET g1 == [g EXCEPT
               !.entities[wi].pendingBuild = << [buildingType |-> buildingType, x |-> x, y |-> y] >>,
               !.entities[wi].targetId = 0,
               !.entities[wi].miningProgress = -1]
      walkable == buildWalkableGrid(g1)
      adj == findAdjacentWalkable(walkable, x * Scale, y * Scale, stats.tileW, stats.tileH)
      path == IF adj = << >> THEN << >> ELSE findPath(walkable, TileOf(g1.entities[wi]), adj[1])
      lost == IF g.entities[wi].pendingBuild = << >> THEN 0
              ELSE getBuildingStats(g.entities[wi].pendingBuild[1].buildingType).cost
  IN  IF path # << >>
      THEN [g1 EXCEPT !.entities[wi].path = path,
                      !.entities[wi].state = "moving",
                      !.h.escrowIn = @ + stats.cost,
                      !.h.escrowLost = @ + lost]
      ELSE [g1 EXCEPT !.players[playerId].gold = GoldAdd(@, stats.cost),
                      !.entities[wi].pendingBuild = << >>,
                      !.entities[wi].state = "idle",
                      !.h.escrowLost = @ + lost]

\* handleBuildStructure (economy.ts); x, y are whole tiles or NaN.  With y
\* NaN, isPlacementValid reads state.tiles[NaN][tx] and throws unless the
\* bounds test on tx returned first; with only x NaN the tile read is
\* undefined and the placement is invalid.
econHandleBuildStructure(g, playerId, workerId, buildingType, x, y) ==
  LET wi == EntIdx(g, workerId)
      worker == g.entities[wi]
      player == g.players[playerId]
      stats == getBuildingStats(buildingType)
      houseCount == Cardinality({i \in Idx(g.entities) :
                       g.entities[i].type = "house" /\ g.entities[i].ownerId = playerId})
      g1 == [g EXCEPT !.players[playerId].gold = GoldSub(@, stats.cost)]
      lost == IF worker.pendingBuild = << >> THEN 0
              ELSE getBuildingStats(worker.pendingBuild[1].buildingType).cost
  IN  IF wi = 0 \/ worker.ownerId # playerId \/ worker.type # "worker" THEN g
      ELSE IF playerId \notin DOMAIN g.players THEN g
      ELSE IF buildingType \notin BuildingTypes THEN Throw(g)
      ELSE IF GoldLt(player.gold, stats.cost) THEN g
      ELSE IF buildingType = "house" /\ houseCount >= HOUSE_MAX_PER_PLAYER THEN g
      ELSE IF y = NaN /\ (x = NaN \/ (x >= 0 /\ x < MapSize)) THEN Throw(g)
      ELSE IF x = NaN \/ y = NaN THEN g
      ELSE IF ~isPlacementValid(g, x, y, stats.tileW, stats.tileH) THEN g
      ELSE IF FootprintWithin(worker, x, y, stats.tileW, stats.tileH, MAX_BUILD_DISTANCE)
        THEN [placeBuilding(g1, playerId, buildingType, x, y, stats.hp, stats.tileW, stats.tileH)
                EXCEPT !.entities[wi].state = "idle",
                       !.entities[wi].path = << >>,
                       !.entities[wi].targetId = 0,
                       !.entities[wi].pendingBuild = << >>,
                       !.h.escrowLost = @ + lost]
      ELSE BuildDeferred(g1, playerId, wi, buildingType, x, y, stats)

\* findPath reads walkable[end.y][end.x] after the bounds tests: with end.y
\* NaN (no bounds test is true of NaN) the row is undefined and the read
\* throws, unless the test on end.x returned first.
PathThrows(ends) ==
  ends.y = NaN /\ (ends.x = NaN \/ (ends.x >= 0 /\ ends.x < MapSize))

\* processConstruction over the entities from index i; b is anyCompleted.
RECURSIVE ConstructionLoop(_, _, _)
ConstructionLoop(ents, i, b) ==
  IF i > Len(ents) THEN [entities |-> ents, built |-> b]
  ELSE
    LET e == ents[i]
    IN  IF ~Unfinished(e) THEN ConstructionLoop(ents, i + 1, b)
        ELSE IF e.buildProgress + 1 >= BuildDoneTicks(e.type)
          THEN ConstructionLoop(
                 [ents EXCEPT ![i].buildProgress = BuildDoneTicks(e.type),
                              ![i].state = "idle"], i + 1, TRUE)
        ELSE ConstructionLoop([ents EXCEPT ![i].buildProgress = @ + 1], i + 1, b)

\* The spawn of processTraining (lines 135-170) for the building at index bi.
SpawnUnit(g, bi) ==
  LET building == g.entities[bi]
      order == building.trainingQueue[1]
      spawnPos == findAdjacentWalkable(buildWalkableGrid(g), building.x, building.y,
                                       building.tileWidth, building.tileHeight)
      level == IF building.ownerId \in DOMAIN g.players
               THEN getPlayerUpgradeLevel(g.players[building.ownerId], order.unitType)
               ELSE 0
      hp == IF level > 0 THEN UpgradedHp(getUnitHp(order.unitType), level)
            ELSE getUnitHp(order.unitType)
      newUnit == Entity(Uuid(g), order.unitType, building.ownerId,
                        spawnPos[1].x * Scale, spawnPos[1].y * Scale, hp)
      g1 == [g EXCEPT !.entities = Append(@, newUnit), !.idc = @ + 1]
      dest == building.rallyPoint[1]
      path == findPath(buildWalkableGrid(g1), spawnPos[1], dest)
  IN  IF spawnPos = << >> THEN g
      ELSE IF building.rallyPoint = << >> THEN g1
      ELSE IF spawnPos[1].x = dest.x /\ spawnPos[1].y = dest.y THEN g1
      ELSE IF PathThrows(dest) THEN Throw(g1)
      ELSE IF path # << >>
        THEN [g1 EXCEPT !.entities[Len(g1.entities)].path = path,
                        !.entities[Len(g1.entities)].state = "moving"]
      ELSE g1

\* A spawn after which the order stays at the head of the queue.
NoShift(g2, i) == g2

\* trainingQueue.shift() of the building at index i after the spawn
\* returned g2, and its state when the queue is empty.
Shift(g2, i) ==
  IF g2.thrown THEN g2
  ELSE [g2 EXCEPT !.entities[i].trainingQueue = Tail(@),
                  !.entities[i].state = IF Len(g2.entities[i].trainingQueue) = 1 THEN "idle" ELSE @]

\* processTraining over the entities that existed when the loop started.
RECURSIVE TrainingLoop(_, _, _)
TrainingLoop(g, i, n) ==
  IF i > n \/ g.thrown THEN g
  ELSE
    LET b == g.entities[i]
        g1 == [g EXCEPT !.entities[i].trainingQueue[1].ticksRemaining = @ - 1]
    IN  IF b.trainingQueue = << >> \/ Unfinished(b) THEN TrainingLoop(g, i + 1, n)
        ELSE IF b.trainingQueue[1].ticksRemaining - 1 > 0 THEN TrainingLoop(g1, i + 1, n)
        ELSE TrainingLoop(Shift(SpawnUnit(g1, i), i), i + 1, n)

processTraining(g) == TrainingLoop(g, 1, Len(g.entities))

\* processPendingBuilds over the entities that existed when the loop started.
RECURSIVE PendingBuildsLoop(_, _, _)
PendingBuildsLoop(g, i, n) ==
  IF i > n THEN g
  ELSE
    LET e == g.entities[i]
        pb == e.pendingBuild[1]
        stats == getBuildingStats(pb.buildingType)
        cleared == [g EXCEPT !.entities[i].pendingBuild = << >>,
                             !.entities[i].state = "idle",
                             !.entities[i].path = << >>]
    IN  IF e.type # "worker" \/ e.pendingBuild = << >> THEN PendingBuildsLoop(g, i + 1, n)
        ELSE IF e.state # "idle" /\ ~(e.state = "moving" /\ e.path = << >>)
          THEN PendingBuildsLoop(g, i + 1, n)
        ELSE IF ~FootprintWithin(e, pb.x, pb.y, stats.tileW, stats.tileH, MAX_BUILD_DISTANCE)
          THEN PendingBuildsLoop(g, i + 1, n)
        ELSE IF isPlacementValid(g, pb.x, pb.y, stats.tileW, stats.tileH)
          THEN PendingBuildsLoop(
                 [placeBuilding(cleared, e.ownerId, pb.buildingType, pb.x, pb.y,
                                stats.hp, stats.tileW, stats.tileH)
                    EXCEPT !.h.escrowPlaced = @ + stats.cost],
                 i + 1, n)
        ELSE PendingBuildsLoop(
               [cleared EXCEPT
                  !.players = IF e.ownerId \in DOMAIN g.players
                              THEN [@ EXCEPT ![e.ownerId].gold = GoldAdd(@, stats.cost)]
                              ELSE @,
                  !.h.escrowRefunded = @ + stats.cost],
               i + 1, n)

processPendingBuilds(g) == PendingBuildsLoop(g, 1, Len(g.entities))

\* Squared centre-to-worker distance used by findNearestDepot (the source
\* compares the square roots).
DepotDist2(e, worker) ==
  LET cx == e.x + (e.tileWidth * Scale) \div 2
      cy == e.y + (e.tileHeight * Scale) \div 2
  IN  (cx - worker.x) * (cx - worker.x) + (cy - worker.y) * (cy - worker.y)

\* A drop-off test that looks neither at the owner nor at the construction.
AnyDepot(e, worker) == e.type \in {"homeBase", "resourceDepot"} /\ e.hp > 0

IsDepotFor(e, worker) ==
  /\ e.ownerId = worker.ownerId
  /\ e.type \in {"homeBase", "resourceDepot"}
  /\ e.hp > 0
  /\ ~Unfinished(e)

\* findNearestDepot: the index of the first nearest depot, 0 for null.
findNearestDepot(g, worker) ==
  LET cand == {i \in Idx(g.entities) : IsDepotFor(g.entities[i], worker)}
  IN  IF cand = {} THEN 0
      ELSE CHOOSE i \in cand :
             \A j \in cand :
                \/ DepotDist2(g.entities[i], worker) < DepotDist2(g.entities[j], worker)
                \/ (DepotDist2(g.entities[i], worker) = DepotDist2(g.entities[j], worker) /\ i <= j)

\* state.goldMines.find(m => m.workerIds.includes(id)): index, 0 for none.
MineHolding(g, id) ==
  LET s == {i \in Idx(g.goldMines) :
              \E k \in Idx(g.goldMines[i].workerIds) : g.goldMines[i].workerIds[k] = id}
  IN  IF s = {} THEN 0 ELSE CHOOSE i \in s : \A j \in s : i <= j

\* workerIds.filter(id => id !== w)
RECURSIVE Without(_, _)
Without(ids, w) ==
  IF ids = << >> THEN << >>
  ELSE IF Head(ids) = w THEN Without(Tail(ids), w)
  ELSE << Head(ids) >> \o Without(Tail(ids), w)

\* A path from the tile of entity i to the first walkable tile next to the
\* mine: [adj, path].
PathToMine(g, i, mine) ==
  LET walkable == buildWalkableGrid(g)
      adj == findAdjacentWalkable(walkable, mine.x * Scale, mine.y * Scale, 2, 2)
  IN  [adj |-> adj,
       path |-> IF adj = << >> THEN << >> ELSE findPath(walkable, TileOf(g.entities[i]), adj[1])]

MapGet(m, k, default) == IF k \in DOMAIN m THEN m[k] ELSE default

\* processGathering, first block: a worker in state gathering (188-228).
GatherMining(g, i) ==
  LET e == g.entities[i]
      timer == MapGet(g.timers, e.id, WORKER_MINE_TICKS)
      mi == MineHolding(g, e.id)
      g1 == [g EXCEPT
               !.timers = MapDelete(@, e.id),
               !.entities[i].miningProgress = -1,
               !.entities[i].carriedGold = WORKER_CARRY_CAPACITY,
               !.goldMines = IF mi = 0 THEN @
                             ELSE [@ EXCEPT ![mi].workerIds = Without(@, e.id),
                                            ![mi].goldRemaining = Max(0, @ - WORKER_CARRY_CAPACITY)],
               !.h.runs = MapSet(@, MapGet(g.h.inMine, e.id, 0),
                                 MapGet(@, MapGet(g.h.inMine, e.id, 0), 0) + 1)]
      di == findNearestDepot(g1, e)
      depot == g1.entities[di]
      walkable == buildWalkableGrid(g1)
      adj == findAdjacentWalkable(walkable, depot.x, depot.y, depot.tileWidth, depot.tileHeight)
  IN  IF e.state # "gathering" THEN g
      ELSE IF timer > 1
        THEN [g EXCEPT !.timers = MapSet(@, e.id, timer - 1),
                       !.entities[i].miningProgress = WORKER_MINE_TICKS - timer]
      ELSE IF di = 0 THEN [g1 EXCEPT !.entities[i].state = "idle"]
      ELSE IF adj = << >> THEN [g1 EXCEPT !.entities[i].state = "idle"]
      ELSE [g1 EXCEPT !.entities[i].path = findPath(walkable, TileOf(e), adj[1]),
                      !.entities[i].state = "returning"]

\* processGathering, second block: a returning worker whose path is
\* exhausted (231-284).
GatherDeposit(g, i) ==
  LET e == g.entities[i]
      g1 == IF e.ownerId \in DOMAIN g.players /\ e.carriedGold > 0
            THEN [g EXCEPT !.players[e.ownerId].gold = GoldAdd(@, e.carriedGold),
                           !.entities[i].carriedGold = 0,
                           !.h.credited = @ + e.carriedGold,
                           !.h.paid = @ \cup {[ownerId |-> e.ownerId, at |-> TileOf(e)]}]
            ELSE g
      mi == MineIdx(g, e.targetId)
      mine == g.goldMines[mi]
      pm == PathToMine(g1, i, mine)
  IN  IF ~(e.state = "returning" /\ e.path = << >>) THEN g
      ELSE IF e.targetId = 0 THEN [g1 EXCEPT !.entities[i].state = "idle"]
      ELSE IF mi = 0 \/ mine.goldRemaining <= 0
        THEN [g1 EXCEPT !.entities[i].state = "idle", !.entities[i].targetId = 0]
      ELSE IF Len(mine.workerIds) >= mine.maxWorkers
        THEN [g1 EXCEPT !.entities[i].state = "idle"]
      ELSE IF pm.path # << >>
        THEN [g1 EXCEPT !.entities[i].path = pm.path, !.entities[i].state = "moving"]
      ELSE [g1 EXCEPT !.entities[i].state = "idle"]

\* An arrival that enters the mine without looking at its occupancy.
EnterMine(g, i) ==
  LET e == g.entities[i]
      mi == MineIdx(g, e.targetId)
  IN  IF ~(e.state \in {"moving", "idle"} /\ e.targetId # 0 /\ e.path = << >>) \/ mi = 0 THEN g
      ELSE IF ~Within(e.x, e.y, (g.goldMines[mi].x + 1) * Scale,
                      (g.goldMines[mi].y + 1) * Scale, MINE_REACH) THEN g
      ELSE [g EXCEPT !.goldMines[mi].workerIds = Append(@, e.id),
                     !.entities[i].state = "gathering",
                     !.timers = MapSet(@, e.id, WORKER_MINE_TICKS)]

\* processGathering, third block: a moving or idle worker with a target and
\* an exhausted path (289-351).
GatherArrive(g, i) ==
  LET e == g.entities[i]
      mi == MineIdx(g, e.targetId)
      mine == g.goldMines[mi]
      near == Within(e.x, e.y, (mine.x + 1) * Scale, (mine.y + 1) * Scale, MINE_REACH)
      free == Len(mine.workerIds) < mine.maxWorkers /\ mine.goldRemaining > 0
      pm == PathToMine(g, i, mine)
  IN  IF ~(e.state \in {"moving", "idle"} /\ e.targetId # 0 /\ e.path = << >>) THEN g
      ELSE IF mi = 0
        THEN [g EXCEPT !.entities[i].targetId = 0, !.entities[i].state = "idle"]
      ELSE IF near
        THEN IF free
             THEN [g EXCEPT !.goldMines[mi].workerIds = Append(@, e.id),
                            !.entities[i].state = "gathering",
                            !.entities[i].miningProgress = 0,
                            !.timers = MapSet(@, e.id, WORKER_MINE_TICKS),
                            !.h.inMine = MapSet(@, e.id, mine.id)]
             ELSE [g EXCEPT !.entities[i].state = "idle"]
      ELSE IF ~free THEN g
      ELSE IF pm.path # << >>
        THEN [g EXCEPT !.entities[i].path = pm.path, !.entities[i].state = "moving"]
      ELSE [g EXCEPT !.entities[i].targetId = 0, !.entities[i].state = "idle"]

\* processGathering over the entities.
RECURSIVE GatheringLoop(_, _)
GatheringLoop(g, i) ==
  IF i > Len(g.entities) THEN g
  ELSE IF g.entities[i].type # "worker" THEN GatheringLoop(g, i + 1)
  ELSE GatheringLoop(GatherArrive(GatherDeposit(GatherMining(g, i), i), i), i + 1)

processGathering(g) == GatheringLoop(g, 1)

\* processConstruction without the callback.
ConstructionOnly(g, c) == [g EXCEPT !.entities = c.entities]

\* processEconomy after processConstruction returned c: the callback
\* onSupplyChanged runs when a building completed.
AfterConstruction(g, c) ==
  IF c.built THEN recalculateSupply([g EXCEPT !.entities = c.entities])
  ELSE [g EXCEPT !.entities = c.entities]

\* processEconomy after processTraining returned g3.
AfterTraining(g3) ==
  IF g3.thrown THEN g3 ELSE processGathering(processPendingBuilds(g3))

\* processEconomy, with the engine's onSupplyChanged callback.
processEconomy(g) ==
  AfterTraining(processTraining(AfterConstruction(g, ConstructionLoop(g.entities, 1, FALSE))))

\* handleGatherResource over workerIds from position k; walkable is the
\* grid built before the loop.
RECURSIVE GatherResourceLoop(_, _, _, _, _, _)
GatherResourceLoop(g, playerId, workerIds, k, mi, walkable) ==
  IF k > Len(workerIds) THEN g
  ELSE
    LET wi == EntIdx(g, workerIds[k])
        worker == g.entities[wi]
        mine == g.goldMines[mi]
        adj == findAdjacentWalkable(walkable, mine.x * Scale, mine.y * Scale, 2, 2)
        path == findPath(walkable, TileOf(worker), adj[1])
        next(gg) == GatherResourceLoop(gg, playerId, workerIds, k + 1, mi, walkable)
    IN  IF wi = 0 \/ worker.ownerId # playerId \/ worker.type # "worker" THEN next(g)
        ELSE IF Len(mine.workerIds) >= mine.maxWorkers THEN next(g)
        ELSE IF adj = << >> THEN next([g EXCEPT !.entities[wi].targetId = 0])
        ELSE IF TileOf(worker) = adj[1]
          THEN next([g EXCEPT !.entities[wi].targetId = mine.id,
                              !.entities[wi].path = << >>,
                              !.entities[wi].state = "idle"])
        ELSE IF path # << >>
          THEN next([g EXCEPT !.entities[wi].targetId = mine.id,
                              !.entities[wi].path = path,
                              !.entities[wi].state = "moving"])
        ELSE next([g EXCEPT !.entities[wi].targetId = 0])

\* handleGatherResource (economy.ts); idsDefined is false when the payload
\* has no workerIds array (`for ... of undefined` throws).
econHandleGatherResource(g, playerId, idsDefined, workerIds, mineId) ==
  LET mi == MineIdx(g, mineId)
  IN  IF mi = 0 \/ g.goldMines[mi].goldRemaining <= 0 THEN g
      ELSE IF ~idsDefined THEN Throw(g)
      ELSE GatherResourceLoop(g, playerId, workerIds, 1, mi, buildWalkableGrid(g))

\* handleUpgradeUnit; for a unitType that is no key of player.upgrades the
\* level read is undefined, the cost NaN, `gold < NaN` false and the gold
\* becomes NaN.
handleUpgradeUnit(g, playerId, armoryId, unitType) ==
  LET ai == EntIdx(g, armoryId)
      armory == g.entities[ai]
      player == g.players[playerId]
      currentLevel == getPlayerUpgradeLevel(player, unitType)
      cost == getUpgradeCost(currentLevel)
  IN  IF ai = 0 \/ armory.ownerId # playerId THEN g
      ELSE IF armory.type # "armory" THEN g
      ELSE IF Unfinished(armory) THEN g
      ELSE IF playerId \notin DOMAIN g.players THEN g
      ELSE IF unitType \notin {"infantry", "archer", "cavalry"}
        THEN [g EXCEPT !.players[playerId].gold = NaN]
      ELSE IF GoldLt(player.gold, cost) THEN g
      ELSE [g EXCEPT !.players[playerId].gold = GoldSub(@, cost),
                     !.players[playerId].upgrades =
                        CASE unitType = "infantry" -> [@ EXCEPT !.infantry = currentLevel + 1]
                          [] unitType = "archer" -> [@ EXCEPT !.archer = currentLevel + 1]
                          [] OTHER -> [@ EXCEPT !.cavalry = currentLevel + 1]]

\* ------------------------------------------------------------ GameEngine.ts

\* A queued command.  data.defined is false for an undefined payload;
\* idsDefined is false when the payload has no id array; id is the single id
\* of the payload (target, building, worker, mine, armory or depot), kind its
\* buildingType or unitType, x and y its coordinates (NaN when missing).
Command(playerId, event, data) == [playerId |-> playerId, event |-> event, data |-> data]

Data(ids, id, kind, x, y) ==
  [defined |-> TRUE, idsDefined |-> TRUE, ids |-> ids, id |-> id, kind |-> kind, x |-> x, y |-> y]

\* The mine whose footprint holds the tile, as goldMines.find does: index, 0
\* for null.
MineAtTile(g, t) ==
  LET s == {i \in Idx(g.goldMines) :
              /\ t.x >= g.goldMines[i].x /\ t.x < g.goldMines[i].x + 2
              /\ t.y >= g.goldMines[i].y /\ t.y < g.goldMines[i].y + 2}
  IN  IF s = {} THEN 0 ELSE CHOOSE i \in s : \A j \in s : i <= j

\* Math.round(Math.cos(angle) * 1), Math.round(Math.sin(angle) * 1) for
\* angle = (i / unitCount) * 2 * PI; commands carry at most two unit ids.
SpreadOffset(i, unitCount) ==
  IF unitCount <= 1 THEN Pt(0, 0)
  ELSE IF i = 0 THEN Pt(1, 0) ELSE Pt(-1, 0)

\* The target of unit number i (from 0) of a moveUnits command.
SpreadTarget(baseTarget, i, unitCount) ==
  IF unitCount <= 1 \/ baseTarget.x = NaN \/ baseTarget.y = NaN THEN baseTarget
  ELSE Pt(Max(0, Min(MapSize - 1, baseTarget.x + SpreadOffset(i, unitCount).x)),
          Max(0, Min(MapSize - 1, baseTarget.y + SpreadOffset(i, unitCount).y)))

\* The normal-movement part of handleMoveUnits for one unit (389-417).
MoveNormal(g, ui, baseTarget, i, unitCount, walkable) ==
  LET entity == g.entities[ui]
      target == SpreadTarget(baseTarget, i, unitCount)
      p1 == findPath(walkable, TileOf(entity), target)
      path == IF p1 = << >> /\ target # baseTarget
              THEN findPath(walkable, TileOf(entity), baseTarget) ELSE p1
  IN  IF PathThrows(target) THEN Throw(g)
      ELSE IF path # << >>
        THEN [g EXCEPT !.entities[ui].path = path,
                       !.entities[ui].state = "moving",
                       !.entities[ui].targetId = 0]
      ELSE g

\* The loop of handleMoveUnits from unit number i (from 0).
RECURSIVE MoveUnitsLoop(_, _, _, _, _, _, _)
MoveUnitsLoop(g, playerId, unitIds, i, baseTarget, mi, walkable) ==
  IF i >= Len(unitIds) \/ g.thrown THEN g
  ELSE
    LET ui == EntIdx(g, unitIds[i + 1])
        entity == g.entities[ui]
        mine == g.goldMines[mi]
        next(gg) == MoveUnitsLoop(gg, playerId, unitIds, i + 1, baseTarget, mi, walkable)
        g1 == [g EXCEPT !.entities[ui].targetId = mine.id]
        adj == findAdjacentWalkable(walkable, mine.x * Scale, mine.y * Scale, 2, 2)
        path == IF adj = << >> THEN << >> ELSE findPath(walkable, TileOf(entity), adj[1])
    IN  IF ui = 0 \/ entity.ownerId # playerId \/ ~IsUnitType(entity.type) THEN next(g)
        ELSE IF entity.type = "worker" /\ mi # 0 /\ mine.goldRemaining > 0
                /\ Len(mine.workerIds) < 1
          THEN IF path # << >>
               THEN next([g1 EXCEPT !.entities[ui].path = path,
                                    !.entities[ui].state = "moving"])
               ELSE next(MoveNormal(g1, ui, baseTarget, i, Len(unitIds), walkable))
        ELSE next(MoveNormal(g, ui, baseTarget, i, Len(unitIds), walkable))

\* handleMoveUnits
handleMoveUnits(g, cmd) ==
  LET d == cmd.data
      baseTarget == Pt(d.x, d.y)
      mi == IF d.x = NaN \/ d.y = NaN THEN 0 ELSE MineAtTile(g, baseTarget)
  IN  IF ~d.defined THEN Throw(g)
      ELSE IF ~d.idsDefined THEN Throw(g)
      ELSE MoveUnitsLoop(g, cmd.playerId, d.ids, 0, baseTarget, mi, buildWalkableGrid(g))

\* The loop of handleAttackTarget from position k; adjIdx counts the units
\* already sent to a building's adjacent tiles.
RECURSIVE AttackTargetLoop(_, _, _, _, _, _, _, _)
AttackTargetLoop(g, playerId, unitIds, k, ti, adjTiles, adjIdx, walkable) ==
  IF k > Len(unitIds) THEN g
  ELSE
    LET ui == EntIdx(g, unitIds[k])
        entity == g.entities[ui]
        target == g.entities[ti]
        toBuilding == HasFootprint(target) /\ Len(adjTiles) > 0
        dest == IF toBuilding THEN adjTiles[(adjIdx % Len(adjTiles)) + 1] ELSE TileOf(target)
        path == IF TileOf(entity) = dest THEN << >> ELSE findPath(walkable, TileOf(entity), dest)
        g1 == [g EXCEPT !.entities[ui].targetId = target.id,
                        !.entities[ui].state = "attacking",
                        !.entities[ui].pendingBuild = << >>,
                        !.entities[ui].path = IF path # << >> THEN path ELSE @]
    IN  IF ui = 0 \/ entity.ownerId # playerId
           \/ entity.type \notin {"infantry", "archer", "cavalry", "ballista"}
        THEN AttackTargetLoop(g, playerId, unitIds, k + 1, ti, adjTiles, adjIdx, walkable)
        ELSE AttackTargetLoop(g1, playerId, unitIds, k + 1, ti, adjTiles,
                              IF toBuilding THEN adjIdx + 1 ELSE adjIdx, walkable)

\* handleAttackTarget
handleAttackTarget(g, cmd) ==
  LET d == cmd.data
      ti == EntIdx(g, d.id)
      target == g.entities[ti]
      walkable == buildWalkableGrid(g)
      adjTiles == IF HasFootprint(target)
                  THEN findAllAdjacentWalkable(walkable, target.x, target.y,
                                               target.tileWidth, target.tileHeight)
                  ELSE << >>
  IN  IF ~d.defined THEN Throw(g)
      ELSE IF ti = 0 THEN g
      ELSE IF ~d.idsDefined THEN Throw(g)
      ELSE AttackTargetLoop(g, cmd.playerId, d.ids, 1, ti, adjTiles, 0, walkable)

\* The recalculateSupply that follows the economy handler when it returned.
SupplyAfterBuild(g1) == IF g1.thrown THEN g1 ELSE recalculateSupply(g1)

\* handleBuildStructure: the economy handler, then recalculateSupply.
handleBuildStructure(g, cmd) ==
  IF ~cmd.data.defined THEN Throw(g)
  ELSE SupplyAfterBuild(econHandleBuildStructure(g, cmd.playerId, cmd.data.id, cmd.data.kind,
                                                 cmd.data.x, cmd.data.y))

\* handleTrainUnit (GameEngine)
engHandleTrainUnit(g, cmd) ==
  IF ~cmd.data.defined THEN Throw(g)
  ELSE handleTrainUnit(g, cmd.playerId, cmd.data.id, cmd.data.kind)

\* handleUpgradeUnit (GameEngine)
engHandleUpgradeUnit(g, cmd) ==
  IF ~cmd.data.defined THEN Throw(g)
  ELSE handleUpgradeUnit(g, cmd.playerId, cmd.data.id, cmd.data.kind)

\* handleGatherResource (GameEngine)
handleGatherResource(g, cmd) ==
  IF ~cmd.data.defined THEN Throw(g)
  ELSE econHandleGatherResource(g, cmd.playerId, cmd.data.idsDefined, cmd.data.ids, cmd.data.id)

\* The loop of handleDepositGold from position k.
RECURSIVE DepositGoldLoop(_, _, _, _, _, _)
DepositGoldLoop(g, playerId, workerIds, k, di, walkable) ==
  IF k > Len(workerIds) THEN g
  ELSE
    LET wi == EntIdx(g, workerIds[k])
        worker == g.entities[wi]
        depot == g.entities[di]
        adj == findAdjacentWalkable(walkable, depot.x, depot.y, depot.tileWidth, depot.tileHeight)
        path == IF adj = << >> THEN << >> ELSE findPath(walkable, TileOf(worker), adj[1])
        next(gg) == DepositGoldLoop(gg, playerId, workerIds, k + 1, di, walkable)
    IN  IF wi = 0 \/ worker.ownerId # playerId THEN next(g)
        ELSE IF worker.type # "worker" THEN next(g)
        ELSE IF worker.carriedGold <= 0 THEN next(g)
        ELSE IF path # << >>
          THEN next([g EXCEPT !.entities[wi].path = path,
                              !.entities[wi].state = "returning",
                              !.entities[wi].targetId = 0,
                              !.entities[wi].pendingBuild = << >>,
                              !.h.escrowLost = @ +
                                 IF worker.pendingBuild = << >> THEN 0
                                 ELSE getBuildingStats(worker.pendingBuild[1].buildingType).cost])
        ELSE next(g)

\* handleDepositGold
handleDepositGold(g, cmd) ==
  LET d == cmd.data
      di == EntIdx(g, d.id)
      depot == g.entities[di]
  IN  IF ~d.defined THEN Throw(g)
      ELSE IF di = 0 \/ depot.ownerId # cmd.playerId THEN g
      ELSE IF depot.type \notin {"homeBase", "resourceDepot"} THEN g
      ELSE IF depot.hp <= 0 THEN g
      ELSE IF ~d.idsDefined THEN Throw(g)
      ELSE DepositGoldLoop(g, cmd.playerId, d.ids, 1, di, buildWalkableGrid(g))

\* handleSetRallyPoint; Math.round of a missing coordinate is NaN.
handleSetRallyPoint(g, cmd) ==
  LET d == cmd.data
      bi == EntIdx(g, d.id)
      building == g.entities[bi]
  IN  IF ~d.defined THEN Throw(g)
      ELSE IF bi = 0 \/ building.ownerId # cmd.playerId THEN g
      ELSE IF building.type \notin {"homeBase", "barracks"} THEN g
      ELSE [g EXCEPT !.entities[bi].rallyPoint = << Pt(d.x, d.y) >>]

\* The body of the switch of processCommands for one command; an event
\* that matches no case is skipped.
Dispatch(g, cmd) ==
  CASE cmd.event = "moveUnits" -> handleMoveUnits(g, cmd)
    [] cmd.event = "attackTarget" -> handleAttackTarget(g, cmd)
    [] cmd.event = "buildStructure" -> handleBuildStructure(g, cmd)
    [] cmd.event = "trainUnit" -> engHandleTrainUnit(g, cmd)
    [] cmd.event = "gatherResource" -> handleGatherResource(g, cmd)
    [] cmd.event = "upgradeUnit" -> engHandleUpgradeUnit(g, cmd)
    [] cmd.event = "depositGold" -> handleDepositGold(g, cmd)
    [] cmd.event = "setRallyPoint" -> handleSetRallyPoint(g, cmd)
    [] OTHER -> g

\* ------------------------------------------------------------ movement.ts

\* getSpeed, in fixed-point tiles per tick.
getSpeed(entity) ==
  CASE entity.type = "worker" -> WORKER_SPEED
    [] entity.type = "infantry" -> INFANTRY_SPEED
    [] entity.type = "archer" -> ARCHER_SPEED
    [] entity.type = "cavalry" -> CAVALRY_SPEED
    [] entity.type = "ballista" -> BALLISTA_SPEED
    [] OTHER -> 0

\* d * num / den rounded to the nearest fixed-point value, sign kept.
ScaleBy(d, num, den) ==
  IF d >= 0 THEN RoundDiv(d * num, den) ELSE 0 - RoundDiv((0 - d) * num, den)

\* The while loop of processMovement for one entity.
RECURSIVE MoveAlong(_, _)
MoveAlong(entity, remaining) ==
  IF remaining <= 0 \/ entity.path = << >> THEN entity
  ELSE
    LET target == entity.path[1]
        dx == target.x * Scale - entity.x
        dy == target.y * Scale - entity.y
        dist == Sqrt(dx * dx + dy * dy)
    IN  IF dist <= remaining + MOVE_EPSILON
        THEN MoveAlong([entity EXCEPT !.x = target.x * Scale, !.y = target.y * Scale,
                                      !.path = Tail(@)],
                       remaining - dist)
        ELSE [entity EXCEPT !.x = @ + ScaleBy(dx, remaining, dist),
                            !.y = @ + ScaleBy(dy, remaining, dist)]

\* An entity carried along its path whatever its state and kind.
GlideEntity(entity) == MoveAlong(entity, getSpeed(entity))

\* processMovement for one entity.
MoveEntity(entity) ==
  LET moved == MoveAlong(entity, getSpeed(entity))
  IN  IF entity.path = << >> THEN entity
      ELSE IF entity.state \notin {"moving", "returning", "attacking"} THEN entity
      ELSE IF getSpeed(entity) <= 0 THEN entity
      ELSE IF moved.path = << >> /\ moved.state = "moving"
        THEN [moved EXCEPT !.state = "idle"]
      ELSE moved

\* processMovement
processMovement(g) ==
  [g EXCEPT !.entities = [i \in Idx(g.entities) |-> MoveEntity(g.entities[i])]]

\* ------------------------------------------------------------ combat.ts

isCombatUnit(type) == type \in {"infantry", "archer", "cavalry", "ballista"}

getAttackRange(entity) ==
  CASE entity.type = "archer" -> ARCHER_RANGE
    [] entity.type = "cavalry" -> CAVALRY_RANGE
    [] entity.type = "ballista" -> BALLISTA_RANGE
    [] OTHER -> INFANTRY_RANGE

\* A ballista that hits units as hard as buildings.
SiegeDamage(entity, target) ==
  IF entity.type = "ballista" THEN BALLISTA_DAMAGE ELSE INFANTRY_DAMAGE

getAttackDamage(entity, target) ==
  CASE entity.type = "archer" -> ARCHER_DAMAGE
    [] entity.type = "cavalry" -> CAVALRY_DAMAGE
    [] entity.type = "ballista" -> IF target.tileWidth = 0 THEN 0 ELSE BALLISTA_DAMAGE
    [] OTHER -> INFANTRY_DAMAGE

getAttackCooldown(entity) ==
  CASE entity.type = "archer" -> ARCHER_ATTACK_COOLDOWN
    [] entity.type = "cavalry" -> CAVALRY_ATTACK_COOLDOWN
    [] entity.type = "ballista" -> BALLISTA_ATTACK_COOLDOWN
    [] OTHER -> INFANTRY_ATTACK_COOLDOWN

getAggroRange(entity) ==
  CASE entity.type = "archer" -> ARCHER_AGGRO_RANGE
    [] entity.type = "cavalry" -> CAVALRY_AGGRO_RANGE
    [] entity.type = "ballista" -> BALLISTA_AGGRO_RANGE
    [] OTHER -> INFANTRY_AGGRO_RANGE

\* tileDistance squared.
TileDist2(a, b) == (a.x - b.x) * (a.x - b.x) + (a.y - b.y) * (a.y - b.y)

\* The point of b's footprint nearest to (px, py), as distToEntity clamps.
ClampTo(b, px, py) ==
  [x |-> Max(b.x, Min(b.x + (b.tileWidth - 1) * Scale, px)),
   y |-> Max(b.y, Min(b.y + (b.tileHeight - 1) * Scale, py))]

\* distToEntity squared.
DistToEntity2(a, b) ==
  IF HasFootprint(b) THEN TileDist2(a, ClampTo(b, a.x, a.y)) ELSE TileDist2(a, b)

\* The first index of s minimising d (a strict `<` scan); 0 when s is empty.
FirstMin(s, d(_)) ==
  IF s = {} THEN 0
  ELSE CHOOSE i \in s : \A j \in s : d(i) < d(j) \/ (d(i) = d(j) /\ i <= j)

\* findNearestEnemy: index in ents, 0 for null.
findNearestEnemy(entity, ents) ==
  LET d(i) == TileDist2(entity, ents[i])
  IN  FirstMin({i \in Idx(ents) : ents[i].ownerId # entity.ownerId /\ ents[i].hp > 0}, d)

\* findNearestEnemyBuilding: index in ents, 0 for null.
findNearestEnemyBuilding(entity, ents) ==
  LET d(i) == DistToEntity2(entity, ents[i])
  IN  FirstMin({i \in Idx(ents) : /\ ents[i].ownerId # entity.ownerId
                                  /\ ents[i].hp > 0
                                  /\ HasFootprint(ents[i])}, d)

\* The cooldown tick-down over every entry of the map (56-59).
TickCooldowns(cds) ==
  [id \in {k \in DOMAIN cds : cds[k] > 0} |-> cds[id] - 1]

\* Auto-aggro (62-75) from index i.
RECURSIVE AggroLoop(_, _)
AggroLoop(ents, i) ==
  IF i > Len(ents) THEN ents
  ELSE
    LET e == ents[i]
        n == IF e.type = "ballista" THEN findNearestEnemyBuilding(e, ents)
             ELSE findNearestEnemy(e, ents)
    IN  IF isCombatUnit(e.type) /\ e.state = "idle" /\ n # 0
           /\ TileDist2(e, ents[n]) <= getAggroRange(e) * getAggroRange(e)
        THEN AggroLoop([ents EXCEPT ![i].targetId = ents[n].id, ![i].state = "attacking"], i + 1)
        ELSE AggroLoop(ents, i + 1)

\* Distance squared from a defensive building's centre to another entity.
DefenceDist2(entity, other) ==
  LET c == [x |-> entity.x + (entity.tileWidth * Scale) \div 2,
            y |-> entity.y + (entity.tileHeight * Scale) \div 2]
  IN  IF HasFootprint(other) THEN TileDist2(c, ClampTo(other, c.x, c.y))
      ELSE TileDist2(c, other)

\* Defensive building auto-attack (78-125) from index i; s = [ents, cds].
RECURSIVE DefenceLoop(_, _)
DefenceLoop(s, i) ==
  IF i > Len(s.ents) THEN s
  ELSE
    LET e == s.ents[i]
        bDamage == IF e.type = "homeBase" THEN HOME_BASE_DAMAGE ELSE TOWER_DAMAGE
        bRange == IF e.type = "homeBase" THEN HOME_BASE_RANGE ELSE TOWER_RANGE
        bCooldown == IF e.type = "homeBase" THEN HOME_BASE_ATTACK_COOLDOWN ELSE TOWER_ATTACK_COOLDOWN
        d(j) == DefenceDist2(e, s.ents[j])
        best == FirstMin({j \in Idx(s.ents) : /\ s.ents[j].ownerId # e.ownerId
                                              /\ s.ents[j].hp > 0
                                              /\ d(j) <= bRange * bRange}, d)
    IN  IF e.type \notin {"tower", "homeBase"} \/ e.hp <= 0 \/ Unfinished(e)
           \/ MapGet(s.cds, e.id, 0) > 0
        THEN DefenceLoop(s, i + 1)
        ELSE IF best # 0
          THEN DefenceLoop(
                 [ents |-> [s.ents EXCEPT ![best].hp = @ - bDamage,
                                          ![i].targetId = s.ents[best].id],
                  cds |-> MapSet(s.cds, e.id, bCooldown)], i + 1)
        ELSE DefenceLoop([s EXCEPT !.ents[i].targetId = 0], i + 1)

\* attackersPerTarget.get(t).push(a): the map as a sequence of
\* [target, attackers] in insertion order.
AddAttacker(apt, t, a) ==
  IF \E k \in Idx(apt) : apt[k].target = t
  THEN [k \in Idx(apt) |-> IF apt[k].target = t
                           THEN [apt[k] EXCEPT !.attackers = Append(@, a)] ELSE apt[k]]
  ELSE Append(apt, [target |-> t, attackers |-> << a >>])

\* candidates.sort(by squared distance to the entity)[0] of a stable sort.
ClosestTile(cands, entity) ==
  LET d(k) == TileDist2([x |-> cands[k].x * Scale, y |-> cands[k].y * Scale], entity)
  IN  cands[FirstMin(Idx(cands), d)]

\* An attacker that never gives its target up.
KeepTrying(g, i, ti) == g

\* The out-of-range branch of pass 1 (166-208) for the attacker at index i.
Approach(g, i, ti) ==
  LET e == g.entities[i]
      target == g.entities[ti]
      walkable == buildWalkableGrid(g)
      cands == findAllAdjacentWalkable(walkable, target.x, target.y,
                                       target.tileWidth, target.tileHeight)
      dest == IF HasFootprint(target)
              THEN (IF cands = << >> THEN << >> ELSE << ClosestTile(cands, e) >>)
              ELSE << TileOf(target) >>
      path == findPath(walkable, TileOf(e), dest[1])
      giveUp == [g EXCEPT !.entities[i].targetId = 0, !.entities[i].state = "idle"]
  IN  IF e.path # << >> THEN g
      ELSE IF dest = << >> THEN giveUp
      ELSE IF TileOf(e) = dest[1] THEN g
      ELSE IF path # << >> THEN [g EXCEPT !.entities[i].path = path]
      ELSE giveUp

\* Pass 1 (133-210) from index i; s = [g, apt].
RECURSIVE TargetingLoop(_, _, _)
TargetingLoop(s, i, n) ==
  IF i > n THEN s
  ELSE
    LET e == s.g.entities[i]
        ti == EntIdx(s.g, e.targetId)
        target == s.g.entities[ti]
        inRange == DistToEntity2(e, target) <= getAttackRange(e) * getAttackRange(e)
    IN  IF e.state # "attacking" \/ ~isCombatUnit(e.type) THEN TargetingLoop(s, i + 1, n)
        ELSE IF e.targetId = 0
          THEN TargetingLoop([s EXCEPT !.g.entities[i].state = "idle"], i + 1, n)
        ELSE IF ti = 0 \/ target.hp <= 0
          THEN TargetingLoop([s EXCEPT !.g.entities[i].targetId = 0,
                                       !.g.entities[i].state = "idle"], i + 1, n)
        ELSE IF inRange
          THEN TargetingLoop(
                 [g |-> [s.g EXCEPT !.entities[i].path = << >>],
                  apt |-> IF MapGet(s.g.cds, e.id, 0) <= 0
                          THEN AddAttacker(s.apt, e.targetId, e.id) ELSE s.apt],
                 i + 1, n)
        ELSE TargetingLoop([s EXCEPT !.g = Approach(s.g, i, ti)], i + 1, n)

\* The products baseDmg * multiplier whose double falls just below the half
\* the exact product reaches: 1 + 0.15 * 9 is 2.3499999999999996 and
\* 1 + 0.15 * 23 is 4.449999999999999, so 10 * multiplier is
\* 23.499999999999996 and 44.49999999999999 (counts up to 30, levels up to 10).
FloatShort(baseDmg, count, level) ==
  baseDmg = ARCHER_DAMAGE /\ level = 0 /\ count \in {10, 24}

\* Math.round(baseDmg * multiplier * upgradeMult) with
\* multiplier = 1 + FOCUS_FIRE_BONUS * (count - 1) and
\* upgradeMult = (1 + UPGRADE_DAMAGE_BONUS) ^ level.
HitDamage(baseDmg, count, level) ==
  RoundDiv(baseDmg * (100 + FOCUS_FIRE_BONUS * (count - 1)) * Pow(100 + UPGRADE_DAMAGE_BONUS, level),
           100 * Pow(100, level))
    - (IF FloatShort(baseDmg, count, level) THEN 1 ELSE 0)

\* The inner loop of pass 2 (221-231) over the attackers of one target.
RECURSIVE HitLoop(_, _, _, _)
HitLoop(g, ti, attackerIds, k) ==
  IF k > Len(attackerIds) THEN g
  ELSE
    LET ai == EntIdx(g, attackerIds[k])
        attacker == g.entities[ai]
        level == IF attacker.ownerId \in DOMAIN g.players
                 THEN getPlayerUpgradeLevel(g.players[attacker.ownerId], attacker.type)
                 ELSE 0
        dmg == HitDamage(getAttackDamage(attacker, g.entities[ti]), Len(attackerIds), level)
    IN  IF ai = 0 THEN HitLoop(g, ti, attackerIds, k + 1)
        ELSE HitLoop([g EXCEPT !.entities[ti].hp = @ - dmg,
                               !.cds = MapSet(@, attacker.id, getAttackCooldown(attacker))],
                     ti, attackerIds, k + 1)

\* Pass 2 (214-232) over the targets in insertion order.
RECURSIVE DamageLoop(_, _, _)
DamageLoop(g, apt, k) ==
  IF k > Len(apt) THEN g
  ELSE
    LET ti == EntIdx(g, apt[k].target)
    IN  IF ti = 0 \/ g.entities[ti].hp <= 0 THEN DamageLoop(g, apt, k + 1)
        ELSE DamageLoop(HitLoop(g, ti, apt[k].attackers, 1), apt, k + 1)

\* entities.filter(e => e.hp > 0), order kept.
RECURSIVE Living(_)
Living(ents) ==
  IF ents = << >> THEN << >>
  ELSE IF Head(ents).hp <= 0 THEN Living(Tail(ents))
  ELSE << Head(ents) >> \o Living(Tail(ents))

\* A combat pass that removes nobody.
KeepDead(g) == g

\* Removal of the dead (235-253): the entities and their cooldown entries
\* are deleted and supply is recalculated.
RemoveDead(g) ==
  LET dead == {g.entities[i].id : i \in {j \in Idx(g.entities) : g.entities[j].hp <= 0}}
      lostEscrow == SeqSum([i \in Idx(g.entities) |->
                       IF g.entities[i].hp <= 0 /\ g.entities[i].pendingBuild # << >>
                       THEN getBuildingStats(g.entities[i].pendingBuild[1].buildingType).cost
                       ELSE 0])
  IN  IF dead = {} THEN g
      ELSE recalculateSupply(
             [g EXCEPT !.entities = Living(@),
                       !.cds = [id \in DOMAIN @ \ dead |-> @[id]],
                       !.h.escrowLost = @ + lostEscrow])

\* The living enemies the defensive building at index i has within its
\* range, measured from its centre.
EnemiesInRange(ents, i) ==
  {j \in Idx(ents) : /\ ents[j].ownerId # ents[i].ownerId
                     /\ ents[j].hp > 0
                     /\ DefenceDist2(ents[i], ents[j]) <= TOWER_RANGE * TOWER_RANGE}

\* The history of the defensive pass over the world g that returned d.  A
\* building fired in the pass when its cooldown stands at the full value.
\* shots: the tick of each building's last shot; early: the buildings that
\* fired fewer than the cooldown passes after their last shot; late: those
\* that let more than the cooldown pass with an enemy in range; strays:
\* those that fired in a pass in which a shot missed the nearest living
\* enemies in range of its building, or the damage dealt was not one fixed
\* damage per shot; unbuilt: those that fired before completion.
DefenceHistory(g, d) ==
  LET towers == {i \in Idx(g.entities) : g.entities[i].type \in {"tower", "homeBase"}}
      fired == {i \in towers : MapGet(d.cds, g.entities[i].id, 0) = TOWER_ATTACK_COOLDOWN}
      last(i) == MapGet(g.h.shots, g.entities[i].id, -1)
      dmg(i) == IF g.entities[i].type = "homeBase" THEN HOME_BASE_DAMAGE ELSE TOWER_DAMAGE
      ids(S) == {g.entities[i].id : i \in S}
      nearest(i) == {j \in EnemiesInRange(g.entities, i) :
                      \A k \in EnemiesInRange(g.entities, i) :
                        DefenceDist2(g.entities[i], g.entities[j])
                          <= DefenceDist2(g.entities[i], g.entities[k])}
      hit == {j \in Idx(g.entities) : d.ents[j].hp # g.entities[j].hp}
      lost == SeqSum([j \in Idx(g.entities) |-> g.entities[j].hp - d.ents[j].hp])
      due == SeqSum([i \in Idx(g.entities) |-> IF i \in fired THEN dmg(i) ELSE 0])
  IN  [g.h EXCEPT
         !.shots = [id \in DOMAIN @ \cup ids(fired) |-> IF id \in ids(fired) THEN g.tick ELSE @[id]],
         !.early = @ \cup ids({i \in fired : last(i) # -1 /\ g.tick - last(i) < TOWER_ATTACK_COOLDOWN}),
         !.late = @ \cup ids({i \in towers \ fired :
                                /\ g.entities[i].hp > 0 /\ ~Unfinished(g.entities[i])
                                /\ EnemiesInRange(g.entities, i) # {}
                                /\ last(i) # -1 /\ g.tick - last(i) > TOWER_ATTACK_COOLDOWN}),
         !.strays = @ \cup ids({i \in fired :
                                  \/ \A j \in nearest(i) : j \notin hit
                                  \/ \E j \in hit : \A k \in fired : j \notin nearest(k)
                                  \/ Cardinality(hit) > Cardinality(fired)
                                  \/ lost # due}),
         !.unbuilt = @ \cup ids({i \in fired : Unfinished(g.entities[i])})]

\* The world after the auto-aggro and defensive passes returned d.
Defended(g, d) == [g EXCEPT !.entities = d.ents, !.cds = d.cds, !.h = DefenceHistory(g, d)]

\* Pass 1 over the entities.
Targeting(g2) == TargetingLoop([g |-> g2, apt |-> << >>], 1, Len(g2.entities))

\* Pass 2 on the result t of pass 1.
Damage(t) == DamageLoop(t.g, t.apt, 1)

\* processCombat
processCombat(g) ==
  RemoveDead(Damage(Targeting(Defended(g,
    DefenceLoop([ents |-> AggroLoop(g.entities, 1), cds |-> TickCooldowns(g.cds)], 1)))))

\* resetCombat / resetEconomy: Map.clear().
resetCombat(cds) == << >>
resetEconomy(timers) == << >>

\* ------------------------------------------------------------ BotAI.ts

\* findNearestGoldMine: index in goldMines, 0 for null.
findNearestGoldMine(g, worker) ==
  LET d(i) == (g.goldMines[i].x * Scale - worker.x) * (g.goldMines[i].x * Scale - worker.x)
              + (g.goldMines[i].y * Scale - worker.y) * (g.goldMines[i].y * Scale - worker.y)
  IN  FirstMin({i \in Idx(g.goldMines) : g.goldMines[i].goldRemaining > 0}, d)

\* `valid` of findBuildPosition for the footprint at (tx, ty).
BuildSpotValid(g, walkable, tx, ty, tileW, tileH) ==
  \A t \in FootprintTiles(tx, ty, tileW, tileH) :
     /\ InMap(t.x, t.y)
     /\ t \in walkable
     /\ \A i \in Idx(g.entities) :
          LET e == g.entities[i]
          IN  HasFootprint(e) =>
                ~(/\ t.x * Scale >= e.x /\ t.x * Scale < e.x + e.tileWidth * Scale
                  /\ t.y * Scale >= e.y /\ t.y * Scale < e.y + e.tileHeight * Scale)

\* searchRadius of findBuildPosition.
SearchRadius == 8

\* findBuildPosition: the first valid offset in the order of the three
\* loops (ring r = max(|dx|, |dy|) from 2, then dx, then dy); << >> for null.
findBuildPosition(g, worker, tileW, tileH) ==
  LET walkable == buildWalkableGrid(g)
      ring(c) == Max(Abs(c.x), Abs(c.y))
      cands == {c \in [x : (0 - SearchRadius)..SearchRadius, y : (0 - SearchRadius)..SearchRadius] :
                  /\ ring(c) >= 2
                  /\ BuildSpotValid(g, walkable, RoundTile(worker.x) + c.x,
                                    RoundTile(worker.y) + c.y, tileW, tileH)}
      before(c, d) == \/ ring(c) < ring(d)
                      \/ ring(c) = ring(d) /\ c.x < d.x
                      \/ ring(c) = ring(d) /\ c.x = d.x /\ c.y <= d.y
      first == CHOOSE c \in cands : \A d \in cands : before(c, d)
  IN  IF cands = {} THEN << >>
      ELSE << Pt(RoundTile(worker.x) + first.x, RoundTile(worker.y) + first.y) >>

\* findNearestEnemyBase: index in entities, 0 for null.
findNearestEnemyBase(g, from, myPlayerId) ==
  LET d(i) == TileDist2(from, g.entities[i])
  IN  FirstMin({i \in Idx(g.entities) : /\ g.entities[i].type = "homeBase"
                                        /\ g.entities[i].ownerId # myPlayerId
                                        /\ g.entities[i].hp > 0}, d)

\* array.filter(pred) on indices: the indices of ents satisfying pred, in
\* order.
RECURSIVE FilterIdx(_, _, _)
FilterIdx(ents, pred(_), i) ==
  IF i > Len(ents) THEN << >>
  ELSE IF pred(ents[i]) THEN << i >> \o FilterIdx(ents, pred, i + 1)
  ELSE FilterIdx(ents, pred, i + 1)

\* ids of the entities at the first n indices of idxs.
IdsOf(ents, idxs, n) == [k \in 1..Min(n, Len(idxs)) |-> ents[idxs[k]].id]

\* BotAI.processTick after the throttle: the commands of one decision.
BotDecide(g, botPlayerId) ==
  LET player == g.players[botPlayerId]
      ents == g.entities
      mine(e) == e.ownerId = botPlayerId
      isBase(e) == mine(e) /\ e.type = "homeBase"
      isWorker(e) == mine(e) /\ e.type = "worker"
      isFreeWorker(e) == isWorker(e) /\ e.state \in {"idle", "moving"}
      isHouse(e) == mine(e) /\ e.type = "house" /\ ~Unfinished(e)
      isBarracks(e) == mine(e) /\ e.type = "barracks" /\ ~Unfinished(e)
      isInfantry(e) == mine(e) /\ e.type = "infantry"
      isFreeInfantry(e) == isInfantry(e) /\ e.state \in {"idle", "moving"}
      bases == FilterIdx(ents, isBase, 1)
      idleWorkers == FilterIdx(ents, isFreeWorker, 1)
      houses == FilterIdx(ents, isHouse, 1)
      barracks == FilterIdx(ents, isBarracks, 1)
      infantry == FilterIdx(ents, isInfantry, 1)
      idleInfantry == FilterIdx(ents, isFreeInfantry, 1)
      canAfford(c) == GoldGe(player.gold, c)
      \* 1. train workers
      c1 == IF bases # << >> /\ canAfford(WORKER_COST)
               /\ player.supply + WORKER_SUPPLY <= player.maxSupply
               /\ Len(ents[bases[1]].trainingQueue) < 3
            THEN << Command(botPlayerId, "trainUnit", Data(<< >>, ents[bases[1]].id, "worker", NaN, NaN)) >>
            ELSE << >>
      \* 2. assign idle workers to gather
      nm == findNearestGoldMine(g, ents[idleWorkers[1]])
      workerIds == IdsOf(ents, idleWorkers,
                         Min(3, g.goldMines[nm].maxWorkers - Len(g.goldMines[nm].workerIds)))
      c2 == IF idleWorkers # << >> /\ nm # 0 /\ workerIds # << >>
            THEN << Command(botPlayerId, "gatherResource", Data(workerIds, g.goldMines[nm].id, "", NaN, NaN)) >>
            ELSE << >>
      \* 3. build houses
      housePos == findBuildPosition(g, ents[idleWorkers[1]], 2, 2)
      c3 == IF Len(houses) < HOUSE_MAX_PER_PLAYER /\ canAfford(HOUSE_COST)
               /\ player.maxSupply > 0 /\ player.supply * 10 >= 7 * player.maxSupply
               /\ idleWorkers # << >> /\ housePos # << >>
            THEN << Command(botPlayerId, "buildStructure",
                            Data(<< >>, ents[idleWorkers[1]].id, "house", housePos[1].x, housePos[1].y)) >>
            ELSE << >>
      \* 4. build barracks
      barracksPos == findBuildPosition(g, ents[idleWorkers[1]], 3, 3)
      c4 == IF barracks = << >> /\ canAfford(BARRACKS_COST)
               /\ player.supply + INFANTRY_SUPPLY <= player.maxSupply
               /\ idleWorkers # << >> /\ barracksPos # << >>
            THEN << Command(botPlayerId, "buildStructure",
                            Data(<< >>, ents[idleWorkers[1]].id, "barracks", barracksPos[1].x, barracksPos[1].y)) >>
            ELSE << >>
      \* 5. train infantry
      hasSpace(e) == isBarracks(e) /\ Len(e.trainingQueue) < 2
      open == FilterIdx(ents, hasSpace, 1)
      c5 == IF barracks # << >> /\ canAfford(INFANTRY_COST)
               /\ player.supply + INFANTRY_SUPPLY <= player.maxSupply /\ open # << >>
            THEN << Command(botPlayerId, "trainUnit", Data(<< >>, ents[open[1]].id, "infantry", NaN, NaN)) >>
            ELSE << >>
      \* 6. attack with infantry
      eb == findNearestEnemyBase(g, ents[idleInfantry[1]], botPlayerId)
      path == findPath(buildWalkableGrid(g), TileOf(ents[idleInfantry[1]]), TileOf(ents[eb]))
      allIdle == IdsOf(ents, idleInfantry, Len(idleInfantry))
      c6 == IF Len(infantry) >= 3 /\ Len(idleInfantry) >= 2 /\ eb # 0
            THEN IF TileDist2(ents[idleInfantry[1]], ents[eb])
                      <= (2 * INFANTRY_AGGRO_RANGE) * (2 * INFANTRY_AGGRO_RANGE)
                 THEN << Command(botPlayerId, "attackTarget", Data(allIdle, ents[eb].id, "", NaN, NaN)) >>
                 ELSE IF path # << >>
                 THEN << Command(botPlayerId, "moveUnits",
                                 Data(allIdle, 0, "", path[Len(path)].x, path[Len(path)].y)) >>
                 ELSE << >>
            ELSE << >>
  IN  c1 \o c2 \o c3 \o c4 \o c5 \o c6

\* processBotCommands: every bot whose throttle has elapsed decides and its
\* commands are appended to the queue.  bots maps a bot player to its
\* lastDecisionTick.
RECURSIVE BotLoop(_, _)
BotLoop(g, todo) ==
  IF todo = << >> THEN g
  ELSE
    LET b == Head(todo)
    IN  IF g.tick - g.bots[b] < DECISION_INTERVAL THEN BotLoop(g, Tail(todo))
        ELSE IF b \notin DOMAIN g.players
          THEN BotLoop([g EXCEPT !.bots[b] = g.tick], Tail(todo))
        ELSE BotLoop([g EXCEPT !.bots[b] = g.tick,
                               !.commandQueue = @ \o BotDecide(g, b)], Tail(todo))

\* The bot players in the order of the botAIs map (roster order).
BotOrder(g) ==
  LET RECURSIVE Pick(_)
      Pick(s) == IF s = {} THEN << >>
                 ELSE LET b == CHOOSE x \in s : TRUE IN << b >> \o Pick(s \ {b})
  IN  Pick(DOMAIN g.bots)

\* A pass in which no bot is throttled.
HastyBots(g) ==
  BotLoop([g EXCEPT !.bots = [b \in DOMAIN g.bots |-> g.tick - DECISION_INTERVAL]], BotOrder(g))

processBotCommands(g) == BotLoop(g, BotOrder(g))

\* ------------------------------------------------------------ the tick

\* The GameState of a world: what handlers and systems read and write and
\* the broadcast sends (the tiles never change).
GameState(g) ==
  [tick |-> g.tick, players |-> g.players, entities |-> g.entities, goldMines |-> g.goldMines]

\* The validation of trainUnit: the conditions under which handleTrainUnit
\* reaches its deduction.
TrainValid(g, cmd) ==
  LET bi == EntIdx(g, cmd.data.id)
      b == g.entities[bi]
      stats == getUnitTrainStats(cmd.data.kind)
      p == g.players[cmd.playerId]
  IN  /\ bi # 0 /\ b.ownerId = cmd.playerId
      /\ cmd.data.kind = "worker" => b.type = "homeBase"
      /\ cmd.data.kind \in {"infantry", "archer", "cavalry", "ballista"} => b.type = "barracks"
      /\ stats.cost > 0
      /\ ~GoldLt(p.gold, stats.cost)
      /\ p.supply + stats.supplyCost <= p.maxSupply
      /\ ~Unfinished(b)

\* The validation of buildStructure, for a payload with a known building
\* type and whole-tile coordinates.
BuildValid(g, cmd) ==
  LET wi == EntIdx(g, cmd.data.id)
      w == g.entities[wi]
      stats == getBuildingStats(cmd.data.kind)
      p == g.players[cmd.playerId]
  IN  /\ wi # 0 /\ w.ownerId = cmd.playerId /\ w.type = "worker"
      /\ ~GoldLt(p.gold, stats.cost)
      /\ cmd.data.kind = "house" =>
           Cardinality({i \in Idx(g.entities) :
              g.entities[i].type = "house" /\ g.entities[i].ownerId = cmd.playerId})
             < HOUSE_MAX_PER_PLAYER
      /\ isPlacementValid(g, cmd.data.x, cmd.data.y, stats.tileW, stats.tileH)

\* The validation of upgradeUnit, for a payload with an upgradeable type.
UpgradeValid(g, cmd) ==
  LET ai == EntIdx(g, cmd.data.id)
      a == g.entities[ai]
      p == g.players[cmd.playerId]
  IN  /\ ai # 0 /\ a.ownerId = cmd.playerId /\ a.type = "armory" /\ ~Unfinished(a)
      /\ ~GoldLt(p.gold, getUpgradeCost(getPlayerUpgradeLevel(p, cmd.data.kind)))

\* A well-formed trainUnit, buildStructure or upgradeUnit command that
\* fails its validation.
FailsValidation(g, cmd) ==
  /\ cmd.data.defined
  /\ cmd.playerId \in DOMAIN g.players
  /\ CASE cmd.event = "trainUnit" ->
            IsUnitType(cmd.data.kind) /\ ~TrainValid(g, cmd)
       [] cmd.event = "buildStructure" ->
            /\ cmd.data.kind \in BuildingTypes
            /\ cmd.data.x # NaN /\ cmd.data.y # NaN
            /\ ~BuildValid(g, cmd)
       [] cmd.event = "upgradeUnit" ->
            cmd.data.kind \in {"infantry", "archer", "cavalry"} /\ ~UpgradeValid(g, cmd)
       [] OTHER -> FALSE

\* The ids a command names.
NamedIds(cmd) ==
  IF ~cmd.data.defined THEN {}
  ELSE {cmd.data.id} \cup (IF cmd.data.idsDefined THEN {cmd.data.ids[k] : k \in Idx(cmd.data.ids)} ELSE {})

\* The workers a gatherResource command has just sent to its mine: those it
\* names that now target the mine, the mine having had free capacity and
\* gold, with a completed depot of their owner.
SentBy(before, after, cmd) ==
  IF cmd.event # "gatherResource" \/ ~cmd.data.defined \/ ~cmd.data.idsDefined
     \/ MineIdx(before, cmd.data.id) = 0
  THEN {}
  ELSE {id \in NamedIds(cmd) :
          /\ EntIdx(after, id) # 0
          /\ after.entities[EntIdx(after, id)].type = "worker"
          /\ after.entities[EntIdx(after, id)].ownerId = cmd.playerId
          /\ after.entities[EntIdx(after, id)].targetId = cmd.data.id
          /\ Len(before.goldMines[MineIdx(before, cmd.data.id)].workerIds)
               < before.goldMines[MineIdx(before, cmd.data.id)].maxWorkers
          /\ before.goldMines[MineIdx(before, cmd.data.id)].goldRemaining > 0
          /\ findNearestDepot(after, after.entities[EntIdx(after, id)]) # 0}

\* The dispatch of cmd changed the record of a player other than its sender,
\* or an entity owned by another player.
Foreign(before, after, cmd) ==
  \/ \E p \in DOMAIN before.players \ {cmd.playerId} : after.players[p] # before.players[p]
  \/ \E i \in Idx(before.entities) :
       /\ before.entities[i].ownerId # cmd.playerId
       /\ \/ EntIdx(after, before.entities[i].id) = 0
          \/ after.entities[EntIdx(after, before.entities[i].id)] # before.entities[i]

\* The unit stands within r tiles of the nearest tile of the w x h footprint
\* whose top-left tile is (x, y).
NearSite(unit, x, y, w, h, r) ==
  LET dx == Max(0, Max(x * Scale - unit.x, unit.x - (x + w - 1) * Scale))
      dy == Max(0, Max(y * Scale - unit.y, unit.y - (y + h - 1) * Scale))
  IN  dx * dx + dy * dy <= r * r

\* What the dispatch of a buildStructure command that passes its validation
\* did: whether the worker stood near the site, the entities it created,
\* whether one of them is the ordered building at progress 0, the gold it
\* took and whether the worker now holds the order.
BuildOrder(before, after, cmd) ==
  LET stats == getBuildingStats(cmd.data.kind)
      old == {before.entities[i].id : i \in Idx(before.entities)}
      new == {i \in Idx(after.entities) : after.entities[i].id \notin old}
      w == after.entities[EntIdx(after, cmd.data.id)]
  IN  [near |-> NearSite(before.entities[EntIdx(before, cmd.data.id)],
                         cmd.data.x, cmd.data.y, stats.tileW, stats.tileH, MAX_BUILD_DISTANCE),
       created |-> Cardinality(new),
       placed |-> \E i \in new :
                    /\ after.entities[i].type = cmd.data.kind
                    /\ after.entities[i].ownerId = cmd.playerId
                    /\ after.entities[i].x = cmd.data.x * Scale
                    /\ after.entities[i].y = cmd.data.y * Scale
                    /\ after.entities[i].buildProgress = 0,
       paid |-> after.players[cmd.playerId].gold
                  = GoldSub(before.players[cmd.playerId].gold, stats.cost),
       pending |-> w.pendingBuild = << [buildingType |-> cmd.data.kind,
                                        x |-> cmd.data.x, y |-> cmd.data.y] >>]

\* The price of the upgrade from level L as the rule book states it.
ListPrice(L) == 100 * Pow(2, L)

\* cmd is an upgradeUnit of an upgradeable type at a completed armory of its
\* sender, who holds the list price of the next level.
UpgradeDue(before, cmd) ==
  LET ai == EntIdx(before, cmd.data.id)
      p == before.players[cmd.playerId]
  IN  /\ cmd.event = "upgradeUnit" /\ cmd.data.defined
      /\ cmd.playerId \in DOMAIN before.players
      /\ cmd.data.kind \in {"infantry", "archer", "cavalry"}
      /\ ai # 0
      /\ before.entities[ai].type = "armory"
      /\ before.entities[ai].ownerId = cmd.playerId
      /\ ~Unfinished(before.entities[ai])
      /\ GoldGe(p.gold, ListPrice(getPlayerUpgradeLevel(p, cmd.data.kind)))

\* What the dispatch of such an upgradeUnit did: the level it started from,
\* the gold it took, the levels before and after, and the gold the player
\* has paid for upgrades of this type so far.
UpgradeRecord(before, after, cmd) ==
  LET p == before.players[cmd.playerId]
      took == p.gold - after.players[cmd.playerId].gold
      earlier == {u \in before.h.upgraded :
                    u.playerId = cmd.playerId /\ u.unitType = cmd.data.kind}
  IN  [playerId |-> cmd.playerId, unitType |-> cmd.data.kind,
       level |-> getPlayerUpgradeLevel(p, cmd.data.kind),
       took |-> took,
       was |-> p.upgrades, now |-> after.players[cmd.playerId].upgrades,
       total |-> took + (IF earlier = {} THEN 0
                         ELSE (CHOOSE u \in earlier : \A v \in earlier : v.level <= u.level).total)]

\* The history kept of one dispatch: the bookkeeping the properties read.
\* Every dispatched command ends the undisturbed run of the workers sent
\* before it.
Recorded(before, after, cmd) ==
  [after EXCEPT
     !.h.dispatched = @ + 1,
     !.h.failed = IF ~after.thrown /\ FailsValidation(before, cmd)
                  THEN << [event |-> cmd.event,
                           changed |-> GameState(after) # GameState(before)] >>
                  ELSE @,
     !.h.foreign = IF ~after.thrown /\ Foreign(before, after, cmd)
                   THEN @ \cup {cmd.event} ELSE @,
     !.h.upgraded = IF ~after.thrown /\ UpgradeDue(before, cmd)
                    THEN @ \cup {UpgradeRecord(before, after, cmd)} ELSE @,
     !.h.orders = IF /\ ~after.thrown /\ cmd.event = "buildStructure" /\ cmd.data.defined
                     /\ cmd.playerId \in DOMAIN before.players
                     /\ cmd.data.kind \in BuildingTypes
                     /\ cmd.data.x # NaN /\ cmd.data.y # NaN
                     /\ BuildValid(before, cmd)
                  THEN @ \cup {BuildOrder(before, after, cmd)} ELSE @,
     !.h.sent = IF after.thrown THEN @
                ELSE [id \in SentBy(before, after, cmd) |-> cmd.data.id],
     !.h.idle = IF after.thrown THEN @
                ELSE [id \in SentBy(before, after, cmd) |-> 0]]

\* The loop of processCommands over the spliced batch; a throw ends it.
RECURSIVE CommandLoop(_, _)
CommandLoop(g, commands) ==
  IF commands = << >> \/ g.thrown THEN g
  ELSE CommandLoop(Recorded(g, Dispatch(g, Head(commands)), Head(commands)), Tail(commands))

\* processCommands: commandQueue.splice(0), then the loop.
processCommands(g) == CommandLoop([g EXCEPT !.commandQueue = << >>], g.commandQueue)

\* stop(): clears the interval and both module-level maps.
stop(g) == [g EXCEPT !.running = FALSE, !.cds = resetCombat(@), !.timers = resetEconomy(@)]

\* A tick that ends without the victory check.
NoVictoryCheck(g) == g

\* checkGameOver: h.winners collects the winnerId of every gameOver emitted.
checkGameOver(g) ==
  LET playersWithBase == {g.entities[i].ownerId :
                            i \in {j \in Idx(g.entities) :
                                     g.entities[j].type = "homeBase" /\ g.entities[j].hp > 0}}
      eliminated == DOMAIN g.players \ playersWithBase
  IN  IF eliminated # {} /\ Cardinality(playersWithBase) = 1
      THEN [stop(g) EXCEPT !.h.gameOver = TRUE,
                           !.h.winners = Append(@, CHOOSE p \in playersWithBase : TRUE)]
      ELSE g

\* The steps of one tick in the order of GameEngine.tick.
TickSteps == << "tick", "bot", "commands", "economy", "movement", "combat", "victory", "broadcast" >>

Step(g, name) == [g EXCEPT !.h.log = Append(@, name)]

\* The bookkeeping at the end of a tick: a sent worker that lost hit points
\* or died is no longer undisturbed; the others count the consecutive ticks
\* they end idle.
EndOfTick(before, after) ==
  LET hpOf(g, id) == IF EntIdx(g, id) = 0 THEN 0 ELSE g.entities[EntIdx(g, id)].hp
      kept == {id \in DOMAIN after.h.sent : hpOf(after, id) > 0 /\ hpOf(after, id) >= hpOf(before, id)}
  IN  [after EXCEPT
         !.h.sent = [id \in kept |-> after.h.sent[id]],
         !.h.idle = [id \in kept |->
                       IF after.entities[EntIdx(after, id)].state = "idle"
                       THEN after.h.idle[id] + 1 ELSE 0]]

\* The commands the bots pushed, counted as queued: b is the world after
\* processBotCommands, queuedBefore the length of the queue before it.
BotQueued(b, queuedBefore) ==
  [b EXCEPT !.h.queued = @ + Len(b.commandQueue) - queuedBefore,
            !.h.botTick = IF Len(b.commandQueue) > queuedBefore THEN b.tick ELSE @]

\* tick(), step 0: processBotCommands.
BotStep(g1) == BotQueued(processBotCommands(Step(g1, "bot")), Len(g1.commandQueue))

\* tick(), steps 2-4 after processEconomy returned g4: movement, combat,
\* the victory check and the broadcast; g3 is the world after the drain.
AfterEconomy(g3, g4) ==
  IF g4.thrown THEN g4
  ELSE EndOfTick(g3,
         Step(checkGameOver(Step(processCombat(Step(processMovement(
           Step(g4, "movement")), "combat")), "victory")), "broadcast"))

\* tick() after processCommands returned g3.
AfterDrain(g3) ==
  IF g3.thrown THEN g3 ELSE AfterEconomy(g3, processEconomy(Step(g3, "economy")))

\* GameEngine.tick on the world g: an exception thrown by a handler or a
\* system propagates out of tick() and the rest of the tick does not run.
RunTick(g) ==
  AfterDrain(processCommands(Step(BotStep(
    Step([g EXCEPT !.tick = @ + 1, !.h.log = << >>, !.h.paid = {}], "tick")), "commands")))

\* ------------------------------------------------------------ scenarios

\* The tick at which the mid-game scenarios start.
MidGame == 70

\* The ticks a worker with a load is followed after the command window.
HoardTicks == 12

\* The history of a match that has dispatched nothing yet; mineStart is the
\* gold each mine held when the history starts.
NoHistory(fixture, mines) ==
  [fixture |-> fixture, issued |-> 0, log |-> << >>, queued |-> 0, dispatched |-> 0,
   failed |-> << >>, sent |-> << >>, idle |-> << >>,
   escrowIn |-> 0, escrowPlaced |-> 0, escrowRefunded |-> 0, escrowLost |-> 0,
   runs |-> << >>, inMine |-> << >>, credited |-> 0,
   mineStart |-> [id \in {mines[i].id : i \in Idx(mines)} |->
                    mines[CHOOSE i \in Idx(mines) : mines[i].id = id].goldRemaining],
   gameOver |-> FALSE, winners |-> << >>, foreign |-> {}, orders |-> {}, upgraded |-> {},
   shots |-> << >>, early |-> {}, late |-> {}, strays |-> {}, unbuilt |-> {}, botTick |-> 0, paid |-> {},
   since |-> 0, until |-> MaxTicks]

\* A home base as the constructor creates it.
HomeBase(id, ownerId, x, y) ==
  [Entity(id, "homeBase", ownerId, x * Scale, y * Scale, HOME_BASE_HP)
     EXCEPT !.tileWidth = HOME_BASE_TILE_WIDTH, !.tileHeight = HOME_BASE_TILE_HEIGHT]

\* A worker as the constructor creates it.
Worker(id, ownerId, x, y) == Entity(id, "worker", ownerId, x * Scale, y * Scale, WORKER_HP)

\* The match the constructor builds for the roster <<p1, p2>> on a
\* MapSize x MapSize grass map: spawn points (0, 0) and (7, 8), a home base
\* on each spawn and a worker at spawn + (HOME_BASE_TILE_WIDTH + 1, 1);
\* three mines; ids o+1 .. o+7 in the order the constructor draws them
\* (mines first); bots are the players whose name starts with [BOT].
Constructed(o, proc, bots, fixture) ==
  LET mines == << GoldMine(o + 1, 0, 4, GOLD_MINE_STARTING_GOLD),
                  GoldMine(o + 2, 2, 4, GOLD_MINE_STARTING_GOLD),
                  GoldMine(o + 3, 10, 5, GOLD_MINE_STARTING_GOLD) >>
  IN  recalculateSupply(
        [tick |-> 0,
         players |-> [p \in {"p1", "p2"} |-> Player(STARTING_GOLD)],
         entities |-> << HomeBase(o + 4, "p1", 0, 0),
                         Worker(o + 5, "p1", HOME_BASE_TILE_WIDTH + 1, 1),
                         HomeBase(o + 6, "p2", 7, 8),
                         Worker(o + 7, "p2", 7 + HOME_BASE_TILE_WIDTH + 1, 9) >>,
         goldMines |-> mines,
         nonGrass |-> {},
         commandQueue |-> << >>,
         running |-> TRUE,
         bots |-> [b \in bots |-> 0],
         proc |-> proc,
         h |-> NoHistory(fixture, mines)])

\* Mid-game: p1's worker stands next to its base and the first mine, in the
\* mine, two ticks from finishing a load.
Mining(o, proc) ==
  LET c == Constructed(o, proc, {}, "mining")
  IN  [c EXCEPT !.entities[2].x = 0, !.entities[2].y = 3 * Scale,
                !.entities[2].state = "gathering",
                !.entities[2].targetId = o + 1,
                !.entities[2].miningProgress = WORKER_MINE_TICKS - 3,
                !.goldMines[1].workerIds = << o + 5 >>,
                !.h.inMine = MapSet(<< >>, o + 5, o + 1),
                !.tick = MidGame, !.h.since = MidGame, !.h.until = MidGame + MaxTicks]

\* The gather timers the process holds for a match in state Mining.
MiningTimers(o) == MapSet(<< >>, o + 5, 2)

\* Mid-game: p1 has paid for a house next to its worker, three ticks from
\* completion (the eighth id drawn).
Building(o, proc) ==
  LET c == Constructed(o, proc, {}, "building")
      house == [Entity(o + 8, "house", "p1", 4 * Scale, 3 * Scale, HOUSE_HP)
                  EXCEPT !.state = "building", !.buildProgress = HOUSE_BUILD_TICKS - 3,
                         !.tileWidth = HOUSE_TILE_WIDTH, !.tileHeight = HOUSE_TILE_HEIGHT]
  IN  [c EXCEPT !.entities = Append(@, house),
                !.players["p1"].gold = STARTING_GOLD - HOUSE_COST,
                !.tick = MidGame, !.h.since = MidGame,
                !.h.until = MidGame + MaxTicks \div 2]

\* Mid-game: p1's worker, hit once, stands within range of p2's home base,
\* and so does a completed house of p1 that the base has shot down to its
\* last hit points; the base fires again in three ticks.
Raid(o, proc) ==
  LET c == Constructed(o, proc, {}, "raid")
      house == [Entity(o + 8, "house", "p1", 2 * Scale, 7 * Scale, HOUSE_HP)
                  EXCEPT !.hp = HOUSE_HP - 13 * HOME_BASE_DAMAGE,
                         !.buildProgress = HOUSE_BUILD_TICKS,
                         !.tileWidth = HOUSE_TILE_WIDTH, !.tileHeight = HOUSE_TILE_HEIGHT]
  IN  recalculateSupply(
        [c EXCEPT !.entities = Append([@ EXCEPT ![2].x = 6 * Scale, ![2].y = 5 * Scale,
                                                ![2].hp = WORKER_HP - HOME_BASE_DAMAGE], house),
                  !.players["p1"].gold = STARTING_GOLD - HOUSE_COST,
                  !.tick = MidGame, !.h.since = MidGame,
                  !.h.shots = MapSet(<< >>, o + 6, MidGame + 3 - HOME_BASE_ATTACK_COOLDOWN),
                  !.h.until = MidGame + MaxTicks \div 2])

\* The cooldowns the process holds for a match in state Raid.
RaidCooldowns(o) == MapSet(<< >>, o + 6, 3)

\* Mid-game: an infantry of p1 (the eighth id drawn) stands beside p2's home
\* base and attacks it; the base is two hits from falling.
Siege(o, proc) ==
  LET c == Constructed(o, proc, {}, "siege")
      infantry == [Entity(o + 8, "infantry", "p1", 6 * Scale, 8 * Scale, INFANTRY_HP)
                     EXCEPT !.state = "attacking", !.targetId = o + 6]
  IN  recalculateSupply(
        [c EXCEPT !.entities = Append([@ EXCEPT ![3].hp = 2 * INFANTRY_DAMAGE], infantry),
                  !.tick = MidGame, !.h.since = MidGame,
                  !.h.until = MidGame + MaxTicks \div 3])

\* Mid-game: p1 owns a completed armory (the eighth id drawn).
Armed(o, proc) ==
  LET c == Constructed(o, proc, {}, "armed")
      armory == [Entity(o + 8, "armory", "p1", 5 * Scale, 3 * Scale, ARMORY_HP)
                   EXCEPT !.buildProgress = BuildDoneTicks("armory"),
                          !.tileWidth = ARMORY_TILE_WIDTH, !.tileHeight = ARMORY_TILE_HEIGHT]
  IN  [c EXCEPT !.entities = Append(@, armory),
                !.tick = MidGame, !.h.since = MidGame,
                !.h.until = MidGame + CommandWindow + 1]

\* Mid-game: the workers of both players stand idle near the second mine,
\* which is free.
Rush(o, proc) ==
  LET c == Constructed(o, proc, {}, "rush")
  IN  [c EXCEPT !.entities[2].x = 1 * Scale, !.entities[2].y = 3 * Scale,
                !.entities[4].x = 2 * Scale, !.entities[4].y = 3 * Scale,
                !.tick = MidGame, !.h.since = MidGame,
                !.h.until = MidGame + MaxTicks \div 6]

\* Mid-game: p1 owns four completed houses along the top edge and a second
\* worker (ids o+8 .. o+12); both workers stand below the houses.
Suburb(o, proc) ==
  LET c == Constructed(o, proc, {}, "suburb")
      house(k) == [Entity(o + 7 + k, "house", "p1", (2 + 2 * k) * Scale, 0, HOUSE_HP)
                     EXCEPT !.buildProgress = HOUSE_BUILD_TICKS,
                            !.tileWidth = HOUSE_TILE_WIDTH, !.tileHeight = HOUSE_TILE_HEIGHT]
  IN  recalculateSupply(
        [c EXCEPT !.entities = [@ EXCEPT ![2].x = 5 * Scale, ![2].y = 2 * Scale]
                                 \o [k \in 1 .. HOUSE_MAX_PER_PLAYER - 1 |-> house(k)]
                                 \o << Worker(o + 12, "p1", 6, 2) >>,
                  !.tick = MidGame, !.h.since = MidGame,
                  !.h.until = MidGame + MaxTicks \div 2])

\* Mid-game: p1's second worker (the eighth id drawn) is in the second
\* mine, three ticks from finishing its load, and p1's first worker, sent
\* to the same mine, waits on the tile beside it.
Queue(o, proc) ==
  LET c == Constructed(o, proc, {}, "queue")
      miner == [Worker(o + 8, "p1", 1, 3)
                  EXCEPT !.state = "gathering", !.targetId = o + 2,
                         !.miningProgress = WORKER_MINE_TICKS - 4]
  IN  recalculateSupply(
        [c EXCEPT !.entities = Append([@ EXCEPT ![2].x = 1 * Scale, ![2].y = 3 * Scale,
                                                ![2].targetId = o + 2], miner),
                  !.goldMines[2].workerIds = << o + 8 >>,
                  !.players["p1"].gold = STARTING_GOLD - WORKER_COST,
                  !.h.inMine = MapSet(<< >>, o + 8, o + 2),
                  !.tick = MidGame, !.h.since = MidGame,
                  !.h.until = MidGame + MaxTicks \div 5])

\* Mid-game: p1 has paid for two workers at its home base; the first is two
\* ticks from leaving it and the second has not begun to count down.
Drill(o, proc) ==
  LET c == Constructed(o, proc, {}, "drill")
  IN  [c EXCEPT !.entities[1].trainingQueue =
                   << [unitType |-> "worker", ticksRemaining |-> 2],
                      [unitType |-> "worker", ticksRemaining |-> WORKER_TRAIN_TICKS] >>,
                !.entities[1].state = "training",
                !.players["p1"].gold = STARTING_GOLD - 2 * WORKER_COST,
                !.players["p1"].supply = @ + 2 * WORKER_SUPPLY,
                !.tick = MidGame, !.h.since = MidGame,
                !.h.until = MidGame + (3 * MaxTicks) \div 5]

\* Mid-game: p1's barracks stands in the top right corner, two ticks from
\* releasing an infantry, with p1's armory on its left and a house below
\* its left half; p1's worker stands below the open tiles (10, 3), (11, 3)
\* (ids o+8 .. o+10 for the buildings).
Corner(o, proc) ==
  LET c == Constructed(o, proc, {}, "corner")
      built(id, type, x, y) ==
        [Entity(id, type, "p1", x * Scale, y * Scale, getBuildingStats(type).hp)
           EXCEPT !.buildProgress = BuildDoneTicks(type),
                  !.tileWidth = getBuildingStats(type).tileW,
                  !.tileHeight = getBuildingStats(type).tileH]
      barracks == [built(o + 8, "barracks", 9, 0)
                     EXCEPT !.trainingQueue = << [unitType |-> "infantry", ticksRemaining |-> 2] >>,
                            !.state = "training"]
  IN  [recalculateSupply(
         [c EXCEPT !.entities = [@ EXCEPT ![2].x = 9 * Scale, ![2].y = 5 * Scale]
                                  \o << barracks, built(o + 9, "armory", 6, 0),
                                        built(o + 10, "house", 8, 3) >>,
                   !.tick = MidGame, !.h.since = MidGame,
                   !.h.until = MidGame + CommandWindow + 2])
        EXCEPT !.players["p1"].supply = @ + INFANTRY_SUPPLY]

\* Mid-game: p1's worker stands idle at its spawn tile with a load of gold
\* it was called away with; p1's resource depot at (5, 1) has just been
\* placed (id o+8).
Hoard(o, proc) ==
  LET c == Constructed(o, proc, {}, "hoard")
      depot == [Entity(o + 8, "resourceDepot", "p1", 5 * Scale, 1 * Scale, RESOURCE_DEPOT_HP)
                  EXCEPT !.buildProgress = 1, !.state = "building",
                         !.tileWidth = RESOURCE_DEPOT_TILE_WIDTH,
                         !.tileHeight = RESOURCE_DEPOT_TILE_HEIGHT]
  IN  [c EXCEPT !.entities = [@ EXCEPT ![2].carriedGold = WORKER_CARRY_CAPACITY] \o << depot >>,
                !.players["p1"].gold = STARTING_GOLD - RESOURCE_DEPOT_COST,
                !.tick = MidGame, !.h.since = MidGame,
                !.h.until = MidGame + CommandWindow + HoardTicks]

\* Mid-game: an idle infantry of p1 (the eighth id drawn) stands at (5, 1)
\* beside p1's worker, out of the range of p2's home base.
Muster(o, proc) ==
  LET c == Constructed(o, proc, {}, "muster")
  IN  recalculateSupply(
        [c EXCEPT !.entities = Append(@, Entity(o + 8, "infantry", "p1", 5 * Scale, 1 * Scale,
                                                INFANTRY_HP)),
                  !.tick = MidGame, !.h.since = MidGame,
                  !.h.until = MidGame + CommandWindow + 2])

\* Mid-game: an infantry of each player stands beside the home base of the
\* other and attacks it (ids o+8 for p1's, o+9 for p2's); each base is one
\* hit from falling.
Duel(o, proc) ==
  LET c == Constructed(o, proc, {}, "duel")
      raider(id, ownerId, x, y, targetId) ==
        [Entity(id, "infantry", ownerId, x * Scale, y * Scale, INFANTRY_HP)
           EXCEPT !.state = "attacking", !.targetId = targetId]
  IN  recalculateSupply(
        [c EXCEPT !.entities = [@ EXCEPT ![1].hp = INFANTRY_DAMAGE, ![3].hp = INFANTRY_DAMAGE]
                                 \o << raider(o + 8, "p1", 6, 8, o + 6),
                                       raider(o + 9, "p2", 3, 1, o + 4) >>,
                  !.tick = MidGame, !.h.since = MidGame,
                  !.h.until = MidGame + CommandWindow + 2])

\* A match one of whose players is a bot, as constructed.
Fresh(o, proc) ==
  [Constructed(o, proc, {"p2"}, "fresh") EXCEPT !.h.until = MaxTicks \div 5]

\* A match without bots, as constructed.
Started(o, proc) ==
  [Constructed(o, proc, {}, "started") EXCEPT !.h.until = MaxTicks \div 5]

\* The identifiers the constructor of a second run may draw, as offsets from
\* those of the first: the same ones, or others.
RunOffsets == {0, 8}

\* ------------------------------------------------------------ the system

\* engines: the GameEngine of every match (its GameState, commandQueue,
\* interval, bots) with the process it runs in and its history.
\* procs: per server process, the module-level maps attackCooldowns
\* (combat.ts) and gatherTimers (economy.ts), the number of uuids drawn, and
\* whether an uncaught exception has ended the process.
VARIABLES engines, procs

vars == << engines, procs >>

Proc(cds, timers, idc) == [cds |-> cds, timers |-> timers, idc |-> idc, crashed |-> FALSE]

\* The world a tick of engine e works on.
World(e, p, salt) ==
  [tick |-> e.tick, players |-> e.players, entities |-> e.entities,
   goldMines |-> e.goldMines, nonGrass |-> e.nonGrass,
   commandQueue |-> e.commandQueue, running |-> e.running, bots |-> e.bots,
   h |-> e.h, cds |-> p.cds, timers |-> p.timers, idc |-> p.idc,
   salt |-> salt, thrown |-> FALSE]

EngineOf(g, e) ==
  [e EXCEPT !.tick = g.tick, !.players = g.players, !.entities = g.entities,
            !.goldMines = g.goldMines, !.commandQueue = g.commandQueue,
            !.running = g.running, !.bots = g.bots, !.h = g.h]

ProcOf(g, p) ==
  [cds |-> g.cds, timers |-> g.timers, idc |-> g.idc, crashed |-> p.crashed \/ g.thrown]

\* The commands the players of a scenario may send.
Menu(e) ==
  LET o == e.goldMines[1].id - 1
      w == << o + 5 >>
  IN  CASE e.h.fixture = "mining" ->
             { Command("p1", "gatherResource", Data(w, o + 1, "", NaN, NaN)),
               Command("p1", "gatherResource", Data(w, o + 2, "", NaN, NaN)),
               Command("p1", "moveUnits", Data(w, 0, "", 3, 3)),
               Command("p1", "depositGold", Data(w, o + 4, "", NaN, NaN)),
               Command("p1", "gatherResource",
                       [Data(<< >>, o + 2, "", NaN, NaN) EXCEPT !.idsDefined = FALSE]),
               Command("p1", "ping", Data(<< >>, 0, "", NaN, NaN)) }
        [] e.h.fixture = "building" ->
             { Command("p1", "buildStructure", Data(<< >>, o + 5, "house", 8, 0)),
               Command("p1", "buildStructure", Data(<< >>, o + 5, "house", 6, 5)),
               Command("p1", "trainUnit", Data(<< >>, o + 4, "worker", NaN, NaN)),
               Command("p1", "buildStructure", Data(<< >>, o + 5, "house", 0, 0)),
               Command("p1", "trainUnit", Data(<< >>, o + 4, "infantry", NaN, NaN)),
               Command("p1", "upgradeUnit", Data(<< >>, o + 4, "infantry", NaN, NaN)),
               Command("p1", "depositGold", Data(w, o + 4, "", NaN, NaN)) }
        [] e.h.fixture = "raid" ->
             { Command("p1", "buildStructure", Data(<< >>, o + 5, "house", 9, 2)),
               Command("p1", "moveUnits", Data(w, 0, "", 3, 3)) }
        [] e.h.fixture = "fresh" ->
             { Command("p1", "gatherResource", Data(w, o + 1, "", NaN, NaN)),
               Command("p1", "attackTarget", Data(w, o + 6, "", NaN, NaN)),
               Command("p1", "setRallyPoint", Data(<< >>, o + 4, "", 4, 2)) }
        [] e.h.fixture = "siege" ->
             { Command("p1", "moveUnits", Data(<< o + 8 >>, 0, "", 3, 8)),
               Command("p1", "attackTarget", Data(<< o + 8 >>, o + 6, "", NaN, NaN)),
               Command("p2", "trainUnit", Data(<< >>, o + 6, "worker", NaN, NaN)),
               Command("p1", "buildStructure", Data(<< >>, o + 5, "house", 6, 1)) }
        [] e.h.fixture = "armed" ->
             { Command("p1", "upgradeUnit", Data(<< >>, o + 8, "infantry", NaN, NaN)),
               Command("p1", "upgradeUnit", Data(<< >>, o + 8, "worker", NaN, NaN)),
               Command("p1", "trainUnit", Data(<< >>, o + 4, "worker", NaN, NaN)),
               Command("p2", "upgradeUnit", Data(<< >>, o + 8, "archer", NaN, NaN)) }
        [] e.h.fixture = "rush" ->
             { Command("p1", "gatherResource", Data(w, o + 2, "", NaN, NaN)),
               Command("p2", "gatherResource", Data(<< o + 7 >>, o + 2, "", NaN, NaN)),
               Command("p1", "moveUnits", Data(w, 0, "", 3, 4)) }
        [] e.h.fixture = "suburb" ->
             { Command("p1", "buildStructure", Data(<< >>, o + 5, "house", 9, 3)),
               Command("p1", "buildStructure", Data(<< >>, o + 12, "house", 6, 3)) }
        [] e.h.fixture = "queue" ->
             { Command("p1", "moveUnits", Data(<< o + 8 >>, 0, "", 4, 3)),
               Command("p1", "moveUnits", Data(w, 0, "", 4, 3)),
               Command("p1", "gatherResource", Data(w, o + 1, "", NaN, NaN)) }
        [] e.h.fixture = "drill" ->
             { Command("p1", "trainUnit", Data(<< >>, o + 4, "worker", NaN, NaN)),
               Command("p1", "setRallyPoint", Data(<< >>, o + 4, "", 4, 2)) }
        [] e.h.fixture = "corner" ->
             { Command("p1", "buildStructure", Data(<< >>, o + 5, "house", 10, 3)),
               Command("p1", "buildStructure", Data(<< >>, o + 5, "house", 9, 6)) }
        [] e.h.fixture = "hoard" ->
             { Command("p1", "depositGold", Data(w, o + 8, "", NaN, NaN)),
               Command("p1", "depositGold", Data(w, o + 4, "", NaN, NaN)) }
        [] e.h.fixture = "muster" ->
             { Command("p1", "attackTarget", Data(<< o + 8 >>, o + 5, "", NaN, NaN)),
               Command("p1", "moveUnits", Data(<< o + 8 >>, 0, "", 6, 2)) }
        [] e.h.fixture = "duel" ->
             { Command("p1", "moveUnits", Data(<< o + 8 >>, 0, "", 4, 8)),
               Command("p2", "moveUnits", Data(<< o + 9 >>, 0, "", 5, 1)) }
        [] e.h.fixture = "started" ->
             { Command("p1", "buildStructure", Data(<< >>, o + 5, "house", 6, 1)),
               Command("p1", "moveUnits", Data(w, 0, "", 4, 4)),
               Command("p1", "gatherResource", Data(w, o + 2, "", NaN, NaN)) }
        [] OTHER -> {}

\* handleCommand(playerId, event, data): the command is pushed on the queue.
HandleCommand(m) ==
  /\ ~procs[engines[m].proc].crashed
  /\ engines[m].h.issued < MaxCommands
  /\ engines[m].tick < engines[m].h.since + CommandWindow
  /\ Len(engines[m].commandQueue) < MaxQueue
  /\ \E cmd \in Menu(engines[m]) :
       engines' = [engines EXCEPT ![m].commandQueue = Append(@, cmd),
                                  ![m].h.issued = @ + 1,
                                  ![m].h.queued = @ + 1]
  /\ UNCHANGED procs

\* One firing of the interval of match m: tick().  An exception that leaves
\* tick() is uncaught and ends the process.
Tick(m) ==
  /\ engines[m].running
  /\ ~procs[engines[m].proc].crashed
  /\ engines[m].tick < engines[m].h.until
  /\ \E salt \in 0 .. UuidChoices - 1 :
       LET g == RunTick(World(engines[m], procs[engines[m].proc], salt))
       IN  /\ engines' = [engines EXCEPT ![m] = EngineOf(g, @)]
           /\ procs' = [procs EXCEPT ![engines[m].proc] = ProcOf(g, @)]

\* stop(), called by the lobby when a player leaves or disconnects.
Stop(m) ==
  /\ engines[m].running
  /\ ~procs[engines[m].proc].crashed
  /\ LET g == stop(World(engines[m], procs[engines[m].proc], 0))
     IN  /\ engines' = [engines EXCEPT ![m] = EngineOf(g, @)]
         /\ procs' = [procs EXCEPT ![engines[m].proc] = ProcOf(g, @)]

\* One match in one process.
Init ==
  \/ /\ engines = [m \in {1} |-> Mining(0, 1)]
     /\ procs = [p \in {1} |-> Proc(<< >>, MiningTimers(0), 7)]
  \/ /\ engines = [m \in {1} |-> Building(0, 1)]
     /\ procs = [p \in {1} |-> Proc(<< >>, << >>, 8)]
  \/ /\ engines = [m \in {1} |-> Raid(0, 1)]
     /\ procs = [p \in {1} |-> Proc(RaidCooldowns(0), << >>, 8)]
  \/ /\ engines = [m \in {1} |-> Fresh(0, 1)]
     /\ procs = [p \in {1} |-> Proc(<< >>, << >>, 7)]
  \/ /\ engines = [m \in {1} |-> Rush(0, 1)]
     /\ procs = [p \in {1} |-> Proc(<< >>, << >>, 7)]

Next ==
  \/ \E m \in DOMAIN engines : HandleCommand(m)
  \/ \E m \in DOMAIN engines : Tick(m)
  \/ \E m \in DOMAIN engines : Stop(m)

Spec == Init /\ [][Next]_vars

\* Two matches in one process: a raid in match 1, whose home base of p2 has
\* an attack cooldown running, and a worker mining in match 2, whose gather
\* timer is running and whose players send nothing more.
InitShared ==
  /\ engines = [m \in {1, 2} |->
                  IF m = 1 THEN [Raid(0, 1) EXCEPT !.h.until = MidGame + SharedTicks]
                  ELSE [Mining(8, 1) EXCEPT !.h.until = MidGame + SharedTicks,
                                            !.h.issued = MaxCommands]]
  /\ procs = [p \in {1} |->
                Proc(RaidCooldowns(0), MiningTimers(8), 15)]

SpecShared == InitShared /\ [][Next]_vars

\* One match in one process, late in the game: p2's home base under attack,
\* p1 with an armory, p1 with four houses and two workers, p1 with two
\* workers at one mine (the gather timer of the one inside is running),
\* p1 training two workers, or p1's barracks in a corner of the map.
InitLate ==
  /\ engines \in {[m \in {1} |-> Siege(0, 1)], [m \in {1} |-> Armed(0, 1)],
                  [m \in {1} |-> Suburb(0, 1)], [m \in {1} |-> Queue(0, 1)],
                  [m \in {1} |-> Drill(0, 1)], [m \in {1} |-> Corner(0, 1)],
                  [m \in {1} |-> Hoard(0, 1)], [m \in {1} |-> Muster(0, 1)],
                  [m \in {1} |-> Duel(0, 1)]}
  /\ procs = [p \in {1} |->
                Proc(<< >>,
                     IF engines[1].h.fixture = "queue" THEN MapSet(<< >>, 8, 3) ELSE << >>,
                     CASE engines[1].h.fixture = "suburb" -> 12
                       [] engines[1].h.fixture = "drill" -> 7
                       [] engines[1].h.fixture = "corner" -> 10
                       [] engines[1].h.fixture = "duel" -> 9
                       [] OTHER -> 8)]

SpecLate == InitLate /\ [][Next]_vars

\* Two independent runs of the same roster on the same map, each in its own
\* process, that receive the same commands at the same ticks.
InitRuns ==
  \E o \in RunOffsets :
    /\ engines = [m \in {1, 2} |-> IF m = 1 THEN Started(0, 1) ELSE Started(o, 2)]
    /\ procs = [p \in {1, 2} |-> Proc(<< >>, << >>, 7 + (IF p = 2 THEN o ELSE 0))]

\* The same command reaches both runs.
RunsCommand ==
  /\ engines[1].h.issued < MaxCommands
  /\ engines[1].tick < engines[1].h.since + CommandWindow
  /\ Len(engines[1].commandQueue) < MaxQueue
  /\ \E cmd \in Menu(engines[1]) :
       engines' = [m \in {1, 2} |->
                     [engines[m] EXCEPT !.commandQueue = Append(@, cmd),
                                        !.h.issued = @ + 1,
                                        !.h.queued = @ + 1]]
  /\ UNCHANGED procs

\* Both runs tick; each draws its own uuids.
RunsTick ==
  /\ \A m \in {1, 2} : engines[m].running /\ ~procs[m].crashed
  /\ engines[1].tick < engines[1].h.until
  /\ \E salts \in [{1, 2} -> 0 .. UuidChoices - 1] :
       /\ engines' = [m \in {1, 2} |->
                        EngineOf(RunTick(World(engines[m], procs[m], salts[m])), engines[m])]
       /\ procs' = [m \in {1, 2} |->
                      ProcOf(RunTick(World(engines[m], procs[m], salts[m])), procs[m])]

NextRuns == RunsCommand \/ RunsTick

SpecRuns == InitRuns /\ [][NextRuns]_vars

\* ------------------------------------------------------------ findPath calls

\* The tiles of the square that may be walkable.
PathSquare == {Pt(x, y) : x \in 0 .. PathSide - 1, y \in 0 .. PathSide - 1}

\* The calls findPath(walkable, start, end) followed: every grid with at most
\* MaxBlocked blocked tiles in the square; start a corner, the centre of a
\* 3 x 3 square or a tile left of the map; end any tile of the square or
\* the tile left of the map.
PathCalls ==
  [walkable : {PathSquare \ b : b \in {c \in SUBSET PathSquare : Cardinality(c) <= MaxBlocked}},
   start : {Pt(0, 0), Pt(1, 1), Pt(-1, 0)},
   ends : PathSquare \cup {Pt(-1, 0)}]

\* Before the call: engines holds the arguments, procs the result.
InitPath ==
  /\ engines \in PathCalls
  /\ procs = [done |-> FALSE, path |-> << >>]

\* The call returns.
CallFindPath ==
  /\ ~procs.done
  /\ procs' = [done |-> TRUE, path |-> findPath(engines.walkable, engines.start, engines.ends)]
  /\ UNCHANGED engines

SpecPath == InitPath /\ [][CallFindPath]_vars

\* ------------------------------------------------------ processCombat calls

\* n units of p1 with the ids first .. first + n - 1 standing on tile (x, y),
\* ordered to attack targetId.
Squad(first, n, type, targetId, x, y) ==
  [i \in 1 .. n |->
     [Entity(first + i - 1, type, "p1", x * Scale, y * Scale, getUnitHp(type))
        EXCEPT !.state = "attacking", !.targetId = targetId]]

\* Late in a match between p1 and p2: p2's worker stands at (9, 2) beside a
\* completed house of p2 at (10, 3); a squad of n units of one type of p1 on
\* tile (9, 3), all upgraded to level, attacks the house or the worker, one
\* more of them (when cooling) having fired five ticks too recently, and m
\* infantry of p1 on tile (6, 8) attack p2's home base.
CombatScene(type, n, level, building, cooling, m) ==
  LET c == Constructed(0, 1, {}, "combat")
      house == [Entity(8, "house", "p2", 10 * Scale, 3 * Scale, HOUSE_HP)
                  EXCEPT !.buildProgress = HOUSE_BUILD_TICKS,
                         !.tileWidth = HOUSE_TILE_WIDTH, !.tileHeight = HOUSE_TILE_HEIGHT]
      targetId == IF building THEN 8 ELSE 7
      late == Squad(9, cooling, type, targetId, 9, 3)
  IN  World(recalculateSupply(
              [c EXCEPT !.entities = Append([@ EXCEPT ![4].x = 9 * Scale, ![4].y = 2 * Scale],
                                            house)
                                       \o late
                                       \o Squad(10, n, type, targetId, 9, 3)
                                       \o Squad(10 + n, m, "infantry", 6, 6, 8),
                        !.players["p1"].upgrades =
                           [infantry |-> level, archer |-> level, cavalry |-> level],
                        !.tick = MidGame]),
            Proc([id \in {late[i].id : i \in Idx(late)} |-> 5], << >>, 10 + n + m), 0)

\* The same place with one idle unit of p1 standing on tile at: p2's worker
\* at (9, 2), the house of p2 at (10, 3) when housed, the home bases, and n
\* ballistae of p1 on tile (9, 3) ordered to attack the worker.
IdleScene(type, at, housed, n) ==
  LET c == Constructed(0, 1, {}, "idle")
      house == [Entity(8, "house", "p2", 10 * Scale, 3 * Scale, HOUSE_HP)
                  EXCEPT !.buildProgress = HOUSE_BUILD_TICKS,
                         !.tileWidth = HOUSE_TILE_WIDTH, !.tileHeight = HOUSE_TILE_HEIGHT]
  IN  World(recalculateSupply(
              [c EXCEPT !.entities = [@ EXCEPT ![4].x = 9 * Scale, ![4].y = 2 * Scale]
                                       \o (IF housed THEN << house >> ELSE << >>)
                                       \o << Entity(10, type, "p1", at.x * Scale, at.y * Scale,
                                                    getUnitHp(type)) >>
                                       \o Squad(11, n, "ballista", 7, 9, 3),
                        !.tick = MidGame]),
            Proc(<< >>, << >>, 10 + n), 0)

\* The rock of the chase scenes: none, a ring around the tiles (7, 2) and
\* (8, 2), or the free tiles around the house at (10, 3).
Rock(kind) ==
  CASE kind = "wall" -> {Pt(x, y) : x \in 6 .. 9, y \in 1 .. 3} \ {Pt(7, 2), Pt(8, 2)}
    [] kind = "moat" -> {Pt(x, y) : x \in 9 .. 11, y \in {2, 5}} \cup {Pt(9, 3), Pt(9, 4)}
    [] OTHER -> {}

\* The same place with rock of the given kind: p2's worker, in good health
\* or one shot of a home base from death, stands at wpos beside no building,
\* p2's house at (10, 3); two units of p1 of one type stand at (8, 2) and
\* (7, 2), ordered to attack t1 and t2 (ids 10 and 11; 0 is no target and
\* 99 an entity that is gone).
ChaseScene(type, t1, t2, kind, wpos, weak) ==
  LET c == Constructed(0, 1, {}, "chase")
      house == [Entity(8, "house", "p2", 10 * Scale, 3 * Scale, HOUSE_HP)
                  EXCEPT !.buildProgress = BuildDoneTicks("house"),
                         !.tileWidth = HOUSE_TILE_WIDTH, !.tileHeight = HOUSE_TILE_HEIGHT]
  IN  World(recalculateSupply(
              [c EXCEPT !.entities = [@ EXCEPT ![4].x = wpos.x * Scale, ![4].y = wpos.y * Scale,
                                               ![4].hp = IF weak THEN HOME_BASE_DAMAGE ELSE @]
                                       \o << house >>
                                       \o Squad(10, 1, type, t1, 8, 2)
                                       \o Squad(11, 1, type, t2, 7, 2),
                        !.nonGrass = Rock(kind),
                        !.tick = MidGame]),
            Proc(<< >>, << >>, 11), 0)

\* The same match with n units of p1 of one type on tile (6, 8) beside p2's
\* home base, ordered to attack it, each with hp hit points left (ids from
\* 10).
LastStand(type, n, hp) ==
  LET c == Constructed(0, 1, {}, "stand")
      squad == Squad(10, n, type, 6, 6, 8)
  IN  World(recalculateSupply(
              [c EXCEPT !.entities = @ \o [i \in Idx(squad) |-> [squad[i] EXCEPT !.hp = hp]],
                        !.tick = MidGame]),
            Proc(<< >>, << >>, 9 + n), 0)

CombatScenes ==
  {CombatScene(type, n, level, building, cooling, m) :
     type \in {"infantry", "archer", "cavalry", "ballista"}, n \in 1 .. MaxAttackers,
     level \in 0 .. 2, building \in BOOLEAN, cooling \in 0 .. 1, m \in 0 .. 2}
  \cup {ChaseScene(type, t1, t2, kind, wpos, weak) :
          type \in {"infantry", "archer"}, t1 \in {0, 99, 7, 8}, t2 \in {7, 8},
          kind \in {"open", "wall", "moat"}, wpos \in {Pt(10, 1), Pt(6, 0)},
          weak \in BOOLEAN}
  \cup {IdleScene(type, at, housed, n) :
          type \in {"infantry", "archer", "cavalry", "ballista"},
          at \in {Pt(9, 3), Pt(7, 2), Pt(5, 3), Pt(3, 10)}, housed \in BOOLEAN, n \in 0 .. 2}
  \cup {LastStand(type, n, hp) :
          type \in {"infantry", "archer", "cavalry", "ballista"}, n \in 1 .. 2,
          hp \in {HOME_BASE_DAMAGE, HOME_BASE_DAMAGE + 1}}

\* engines is the world of the scene and procs the call's outcome.
InitCombat ==
  /\ engines \in CombatScenes
  /\ procs = [done |-> FALSE, after |-> engines]

\* One combat pass over the scene.
CallProcessCombat ==
  /\ ~procs.done
  /\ procs' = [done |-> TRUE, after |-> processCombat(engines)]
  /\ UNCHANGED engines

SpecCombat == InitCombat /\ [][CallProcessCombat]_vars

\* --------------------------------------------------- processGathering calls

\* A resource depot with the given id and owner at tile (x, y), completed or
\* ten ticks from completion.
Depot(id, ownerId, x, y, built) ==
  [Entity(id, "resourceDepot", ownerId, x * Scale, y * Scale, RESOURCE_DEPOT_HP)
     EXCEPT !.buildProgress = RESOURCE_DEPOT_BUILD_TICKS - (IF built THEN 0 ELSE 10),
            !.state = IF built THEN "idle" ELSE "building",
            !.tileWidth = RESOURCE_DEPOT_TILE_WIDTH, !.tileHeight = RESOURCE_DEPOT_TILE_HEIGHT]

\* Mid-game: p1's worker stands at tile at beside the second mine, in the
\* mine, on the last tick of its load; own is << >> or the place and the
\* completion of a depot of p1, other is "none", "p2" for a completed depot
\* of p2 at (4, 7), or "p1" for an unfinished depot of p1 there.
DepotScene(at, own, other) ==
  LET c == Constructed(0, 1, {}, "depot")
  IN  World([c EXCEPT !.entities = [@ EXCEPT ![2].x = at.x * Scale, ![2].y = at.y * Scale,
                                             ![2].state = "gathering", ![2].targetId = 2,
                                             ![2].miningProgress = WORKER_MINE_TICKS - 2]
                                     \o (IF own = << >> THEN << >>
                                         ELSE << Depot(8, "p1", own[1].x, own[1].y, own[2]) >>)
                                     \o (IF other = "none" THEN << >>
                                         ELSE << Depot(9, other, 4, 7, other = "p2") >>),
                      !.goldMines[2].workerIds = << 5 >>,
                      !.h.inMine = MapSet(<< >>, 5, 2),
                      !.tick = MidGame],
            Proc(<< >>, MapSet(<< >>, 5, 1), 9), 0)

DepotScenes ==
  {DepotScene(at, own, other) :
     at \in {Pt(1, 3), Pt(4, 4), Pt(2, 6), Pt(4, 6)},
     own \in {<< >>} \cup ({Pt(5, 2), Pt(6, 5), Pt(0, 7)} \X BOOLEAN),
     other \in {"none", "p1", "p2"}}

\* engines is the world of the scene and procs the call's outcome.
InitDepot ==
  /\ engines \in DepotScenes
  /\ procs = [done |-> FALSE, after |-> engines]

\* One gathering pass over the scene.
CallProcessGathering ==
  /\ ~procs.done
  /\ procs' = [done |-> TRUE, after |-> processGathering(engines)]
  /\ UNCHANGED engines

SpecDepot == InitDepot /\ [][CallProcessGathering]_vars

\* --------------------------------------------------- processMovement calls

\* Mid-game: a p1 unit of the given type, state and path at fixed-point x,
\* row 3, and p1's house at (8, 3) in the state and with the path given
\* (ids 10 and 11).
MoveScene(type, state, x, path, hstate, hpath) ==
  LET c == Constructed(0, 1, {}, "move")
      house == [Entity(11, "house", "p1", 8 * Scale, 3 * Scale, HOUSE_HP)
                  EXCEPT !.buildProgress = BuildDoneTicks("house"),
                         !.tileWidth = HOUSE_TILE_WIDTH, !.tileHeight = HOUSE_TILE_HEIGHT,
                         !.state = hstate, !.path = hpath]
  IN  World([c EXCEPT !.entities = @ \o << [Entity(10, type, "p1", x, 3 * Scale, 1)
                                              EXCEPT !.state = state, !.path = path],
                                           house >>,
                      !.tick = MidGame],
            Proc(<< >>, << >>, 11), 0)

MoveScenes ==
  {MoveScene(type, state, x, path, hstate, hpath) :
     type \in {"worker", "infantry", "cavalry"},
     state \in {"idle", "moving", "returning", "attacking", "gathering"},
     x \in {4 * Scale, 5 * Scale - MoveGap},
     path \in {<< >>, << Pt(5, 3) >>, << Pt(5, 3), Pt(6, 4) >>},
     hstate \in {"idle", "moving"},
     hpath \in {<< >>, << Pt(5, 3) >>}}

\* engines is the world of the scene and procs the call's outcome.
InitMove ==
  /\ engines \in MoveScenes
  /\ procs = [done |-> FALSE, after |-> engines]

\* One movement pass over the scene.
CallProcessMovement ==
  /\ ~procs.done
  /\ procs' = [done |-> TRUE, after |-> processMovement(engines)]
  /\ UNCHANGED engines

SpecMove == InitMove /\ [][CallProcessMovement]_vars

\* ------------------------------------------------------- generateMap calls

\* constants.ts: the map of a two-player match and the tiles added per
\* further player; the number of mines aimed at.
MAP_WIDTH_BASE == 60
MAP_SIZE_PER_PLAYER == 20
GOLD_MINE_COUNT == 8

\* The values rng() takes: j / RngSteps for j in 0 .. RngSteps - 1.
RngSteps == 8

\* The mines followed (the loop guard goldMines.length < targetMineCount is
\* capped by it) and the attempts of the placement loop followed.
MaxMines == 4
MaxAttempts == 2

RngDraws == 0 .. RngSteps - 1

\* Math.floor(rng() * n) for the draw j.
FloorRng(j, n) == (j * n) \div RngSteps

\* getMapSize(playerCount).width (the map is square).
getMapSize(playerCount) == MAP_WIDTH_BASE + Max(0, playerCount - 2) * MAP_SIZE_PER_PLAYER

\* The spawn points of generateMap in fixed point: margin is
\* max(5, min(10, MAP_WIDTH / 8)), which is 7.5 on the 60 x 60 map.
SpawnPoints(playerCount) ==
  LET W == getMapSize(playerCount)
      margin == Max(5 * Scale, Min(10 * Scale, (W * Scale) \div 8))
      far == (W - 3) * Scale - margin
      all == << [x |-> margin, y |-> margin], [x |-> far, y |-> far],
                [x |-> far, y |-> margin], [x |-> margin, y |-> far] >>
  IN  SubSeq(all, 1, Max(playerCount, 2))

\* The mine placed near the spawn point sp for the draws jx, jy.
SpawnMine(W, sp, jx, jy) ==
  Pt(Min(W - 4, Max(2, sp.x \div Scale + 6 + FloorRng(jx, 4))),
     Min(W - 4, Max(2, sp.y \div Scale + 6 + FloorRng(jy, 4))))

targetMineCount(W) == Min(GOLD_MINE_COUNT, Max(4, W \div 15))

minMineDistance(W) == Max(8, W \div 8)

\* goldMines.some(m => |m.x - mx| < minMineDistance && |m.y - my| < minMineDistance)
tooClose(mines, mx, my, d) ==
  \E k \in Idx(mines) : Abs(mines[k].x - mx) < d /\ Abs(mines[k].y - my) < d

\* A call generateMap(playerCount, seed) before its first mine: engines is
\* the map data being built (the tiles, which no mine placement reads, are
\* left out) and procs the position of the call.
MapCall(playerCount) ==
  [playerCount |-> playerCount, width |-> getMapSize(playerCount),
   spawnPoints |-> SpawnPoints(playerCount), goldMines |-> << >>]

InitMap ==
  /\ engines \in {MapCall(playerCount) : playerCount \in {2, 4}}
  /\ procs = [at |-> "spawns", attempts |-> 0]

\* One iteration of the loop over the spawn points: two draws, one mine.
PlaceSpawnMine ==
  /\ procs.at = "spawns"
  /\ Len(engines.goldMines) < Len(engines.spawnPoints)
  /\ \E jx, jy \in RngDraws :
       engines' = [engines EXCEPT !.goldMines =
                     Append(@, SpawnMine(engines.width,
                                         engines.spawnPoints[Len(engines.goldMines) + 1], jx, jy))]
  /\ UNCHANGED procs

\* The loop over the spawn points is over.
SpawnsPlaced ==
  /\ procs.at = "spawns"
  /\ Len(engines.goldMines) = Len(engines.spawnPoints)
  /\ procs' = [procs EXCEPT !.at = "rest"]
  /\ UNCHANGED engines

\* One iteration of the loop that places the remaining mines: two draws;
\* the mine is placed unless it is too close to a mine placed before.
TryMine ==
  /\ procs.at = "rest"
  /\ Len(engines.goldMines) < Min(targetMineCount(engines.width), MaxMines)
  /\ procs.attempts < Min(200, MaxAttempts)
  /\ \E jx, jy \in RngDraws :
       LET mx == 5 + FloorRng(jx, engines.width - 10)
           my == 5 + FloorRng(jy, engines.width - 10)
       IN  engines' = IF tooClose(engines.goldMines, mx, my, minMineDistance(engines.width))
                      THEN engines
                      ELSE [engines EXCEPT !.goldMines = Append(@, Pt(mx, my))]
  /\ procs' = [procs EXCEPT !.attempts = @ + 1]

\* The placement loop is over and generateMap returns.
ReturnMap ==
  /\ procs.at = "rest"
  /\ \/ Len(engines.goldMines) >= Min(targetMineCount(engines.width), MaxMines)
     \/ procs.attempts >= Min(200, MaxAttempts)
  /\ procs' = [procs EXCEPT !.at = "returned"]
  /\ UNCHANGED engines

NextMap == PlaceSpawnMine \/ SpawnsPlaced \/ TryMine \/ ReturnMap

SpecMap == InitMap /\ [][NextMap]_vars

\* ------------------------------------------------- movement and combat, on

\* The same place: p2's worker stands at (10, 2) above p2's house at
\* (10, 3), in good health or one infantry hit from death; one unit of p1 of
\* the given type stands on tile at with no path, ordered to attack the
\* worker or the house (id 10); the rock is none or the ring around (7, 2)
\* and (8, 2).
PursuitScene(type, at, targetId, weak, kind) ==
  LET c == Constructed(0, 1, {}, "pursuit")
      house == [Entity(8, "house", "p2", 10 * Scale, 3 * Scale, HOUSE_HP)
                  EXCEPT !.buildProgress = BuildDoneTicks("house"),
                         !.tileWidth = HOUSE_TILE_WIDTH, !.tileHeight = HOUSE_TILE_HEIGHT]
  IN  World(recalculateSupply(
              [c EXCEPT !.entities = [@ EXCEPT ![4].x = 10 * Scale, ![4].y = 2 * Scale,
                                               ![4].hp = IF weak THEN INFANTRY_DAMAGE ELSE @]
                                       \o << house >>
                                       \o Squad(10, 1, type, targetId, at.x, at.y),
                        !.nonGrass = Rock(kind),
                        !.tick = MidGame]),
            Proc(<< >>, << >>, 10), 0)

PursuitScenes ==
  {PursuitScene(type, at, targetId, weak, kind) :
     type \in {"infantry", "archer", "cavalry"}, at \in {Pt(8, 2), Pt(7, 2)},
     targetId \in {7, 8}, weak \in BOOLEAN, kind \in {"open", "wall"}}

\* engines is the world and procs tells whether the last tick lowered the
\* hit points of the entity the unit was attacking, and whether the tick
\* counter is odd.
InitPursuit ==
  /\ engines \in PursuitScenes
  /\ procs = [struck |-> FALSE, odd |-> FALSE]

\* The hit points of the entity id in g, 0 when it is gone.
HpOf(g, id) == IF EntIdx(g, id) = 0 THEN 0 ELSE g.entities[EntIdx(g, id)].hp

\* The movement and combat steps of one tick (the players send nothing and
\* nothing is built, trained or mined; of the tick counter only the parity
\* is kept).
MoveAndFight ==
  LET after == processCombat(processMovement(engines))
      a == EntIdx(engines, 10)
      tid == engines.entities[a].targetId
  IN  /\ engines' = [after EXCEPT !.h = engines.h]
      /\ procs' = [struck |-> a # 0 /\ tid # 0 /\ HpOf(after, tid) < HpOf(engines, tid),
                   odd |-> ~procs.odd]

SpecPursuit == InitPursuit /\ [][MoveAndFight]_vars

\* ------------------------------------------------------------ properties

\* C1: every tick runs its steps exactly once and in the order tick counter,
\* bot pass, command drain, economy, movement, combat, victory check,
\* broadcast: between two firings of the interval the steps logged by the
\* last tick are all of TickSteps, in that order.
C1_TickOrder ==
  \A m \in DOMAIN engines : engines[m].h.log \in {<< >>, TickSteps}

\* C2: every command handleCommand enqueued is dispatched exactly once, by
\* the drain of the next tick: the commands enqueued so far are those
\* dispatched so far and those still buffered.
C2_DispatchedOnce ==
  \A m \in DOMAIN engines :
    engines[m].h.queued = engines[m].h.dispatched + Len(engines[m].commandQueue)

\* C3: no command, whatever its type and payload, throws out of the drain:
\* no tick ends inside processCommands.
C3_DrainCompletes ==
  \A m \in DOMAIN engines : engines[m].h.log # SubSeq(TickSteps, 1, 3)

\* C4: a trainUnit, buildStructure or upgradeUnit command that fails its
\* validation leaves the whole GameState as it was.
C4_SilentNoOp ==
  \A m \in DOMAIN engines :
    \A i \in DOMAIN engines[m].h.failed : ~engines[m].h.failed[i].changed

\* The attack cooldown and the gather timer the process p holds for the
\* entities of engine e.
Trackers(e, p) ==
  [i \in Idx(e.entities) |->
     << MapGet(p.cds, e.entities[i].id, 0), MapGet(p.timers, e.entities[i].id, 0) >>]

\* C5: with two matches in one process, a step of one match (a tick, a
\* stop(), a command) that leaves the other match as it was leaves the
\* cooldowns and gather timers of the other match's entities as they were.
C5_Isolated ==
  [][\A a \in DOMAIN engines : \A b \in DOMAIN engines \ {a} :
       (engines'[a] # engines[a] /\ engines'[b] = engines[b])
         => Trackers(engines[b], procs'[engines[b].proc])
              = Trackers(engines[b], procs[engines[b].proc])]_vars

\* C6: two independent runs of the same roster on the same map that receive
\* the same commands at the same ticks have the same GameState after every
\* number of ticks; stated for the runs whose constructors drew the same
\* identifiers.
C6_Deterministic ==
  (\A i \in Idx(engines[1].goldMines) :
     engines[1].goldMines[i].id = engines[2].goldMines[i].id)
    => GameState(engines[1]) = GameState(engines[2])

\* The cost reserved by the pending builds of the workers of engine e.
PendingCost(e) ==
  SeqSum([i \in Idx(e.entities) |->
            IF e.entities[i].pendingBuild = << >> THEN 0
            ELSE getBuildingStats(e.entities[i].pendingBuild[1].buildingType).cost])

\* C7: the cost reserved for a deferred build is consumed by one placed
\* building or refunded once, and never lost: the costs reserved so far are
\* those placed, those refunded and those still pending on a worker.
C7_EscrowLedger ==
  \A m \in DOMAIN engines :
    engines[m].h.escrowIn
      = engines[m].h.escrowPlaced + engines[m].h.escrowRefunded + PendingCost(engines[m])

\* The supply the claim grants player p in engine e: 10 for every living
\* home base and 10 for every living house whose construction is complete.
GrantedSupply(e, p) ==
  10 * Cardinality({i \in Idx(e.entities) :
                      /\ e.entities[i].ownerId = p /\ e.entities[i].hp > 0
                      /\ e.entities[i].type = "homeBase"})
  + 10 * Cardinality({i \in Idx(e.entities) :
                        /\ e.entities[i].ownerId = p /\ e.entities[i].hp > 0
                        /\ e.entities[i].type = "house"
                        /\ e.entities[i].buildProgress \notin 0 .. HOUSE_BUILD_TICKS - 1})

\* C8: at the end of every tick (and of every other step) each player's
\* maxSupply is 10 per living home base plus 10 per living completed house,
\* and a step changes it only if it changes that number of buildings.
C8_MaxSupply ==
  /\ [](\A m \in DOMAIN engines : \A p \in DOMAIN engines[m].players :
          engines[m].players[p].maxSupply = GrantedSupply(engines[m], p))
  /\ [][\A m \in DOMAIN engines : \A p \in DOMAIN engines[m].players :
          engines'[m].players[p].maxSupply # engines[m].players[p].maxSupply
            => GrantedSupply(engines'[m], p) # GrantedSupply(engines[m], p)]_vars

\* C8 witness: in the match that started with p1's house under construction
\* the house has completed and p1's maxSupply has risen to 20.
C8_Witness ==
  /\ engines[1].h.fixture = "building"
  /\ engines[1].players["p1"].maxSupply = 20
  /\ \E i \in Idx(engines[1].entities) :
       /\ engines[1].entities[i].type = "house"
       /\ engines[1].entities[i].buildProgress = HOUSE_BUILD_TICKS

\* C9: a worker that gatherResource sent to a mine with free capacity and
\* gold, with a depot, and that has since received no command and taken no
\* damage, keeps cycling while the mine has gold: it does not end two ticks
\* in a row idle (an idle worker with the mine as target starts gathering
\* or moving on the next economy pass).
C9_KeepsCycling ==
  \A m \in DOMAIN engines : \A id \in DOMAIN engines[m].h.sent :
    engines[m].goldMines[MineIdx(engines[m], engines[m].h.sent[id])].goldRemaining > 0
      => engines[m].h.idle[id] <= 1

\* C10: every completed gathering run removes WORKER_CARRY_CAPACITY gold
\* from the mine the worker mined: the gold a mine has lost is the carry
\* capacity times the runs completed in it.
C10_MinedMinePays ==
  \A m \in DOMAIN engines : \A i \in Idx(engines[m].goldMines) :
    engines[m].h.mineStart[engines[m].goldMines[i].id] - engines[m].goldMines[i].goldRemaining
      = WORKER_CARRY_CAPACITY * MapGet(engines[m].h.runs, engines[m].goldMines[i].id, 0)

\* A step from tile a to tile b of a route: b is walkable and one of the
\* eight neighbours of a, and a diagonal step is forbidden only when both of
\* the tiles flanking it are blocked.
RouteStep(walkable, a, b) ==
  /\ b \in walkable
  /\ a # b /\ Abs(a.x - b.x) <= 1 /\ Abs(a.y - b.y) <= 1
  /\ (a.x # b.x /\ a.y # b.y)
       => (Pt(a.x, b.y) \in walkable \/ Pt(b.x, a.y) \in walkable)

\* 1 per cardinal step, the square root of 2 per diagonal step.
StepCost(a, b) == IF a.x # b.x /\ a.y # b.y THEN SQRT2 ELSE Scale

\* The least cost of a route to ends, by settling the nearest tile of the
\* frontier (pairs <<cost, tile>>) first; -1 when ends is never reached.
RECURSIVE Settle(_, _, _, _)
Settle(walkable, ends, frontier, settled) ==
  IF frontier = {} THEN -1
  ELSE
    LET best == CHOOSE p \in frontier : \A q \in frontier : p[1] <= q[1]
    IN  IF best[2] = ends THEN best[1]
        ELSE Settle(walkable, ends,
                    {q \in frontier : q[2] # best[2]}
                      \cup {<< best[1] + StepCost(best[2], b), b >> :
                              b \in {v \in walkable \ (settled \cup {best[2]}) :
                                       RouteStep(walkable, best[2], v)}},
                    settled \cup {best[2]})

\* The least cost of a route from start to ends, -1 when there is none.
MinCost(walkable, start, ends) == Settle(walkable, ends, {<< 0, start >>}, {})

\* The cost of the route path walked from start.
PathCost(start, path) ==
  SeqSum([i \in Idx(path) |-> StepCost(IF i = 1 THEN start ELSE path[i - 1], path[i])])

\* C12: for in-bounds start and end, end walkable and reachable from start,
\* findPath returns a route to end whose cost is the least cost of a route.
C12_MinimalRoute ==
  (/\ procs.done
   /\ InMap(engines.start.x, engines.start.y)
   /\ engines.start # engines.ends
   /\ MinCost(engines.walkable, engines.start, engines.ends) # -1)
    => /\ procs.path # << >>
       /\ procs.path[Len(procs.path)] = engines.ends
       /\ PathCost(engines.start, procs.path)
            = MinCost(engines.walkable, engines.start, engines.ends)

\* C13: findPath returns the empty sequence exactly when start or end is
\* out of bounds, the destination is unwalkable, start equals end, or no
\* route leads from start to end.
C13_EmptyIff ==
  procs.done =>
    ((procs.path = << >>) <=>
       \/ ~InMap(engines.start.x, engines.start.y)
       \/ ~InMap(engines.ends.x, engines.ends.y)
       \/ engines.ends \notin engines.walkable
       \/ engines.start = engines.ends
       \/ MinCost(engines.walkable, engines.start, engines.ends) = -1)

\* C13 witness: a call with both tiles in bounds, a walkable destination
\* other than the start and blocked tiles around it has returned empty.
C13_Witness ==
  /\ procs.done /\ procs.path = << >>
  /\ InMap(engines.start.x, engines.start.y)
  /\ engines.ends \in engines.walkable
  /\ engines.start # engines.ends


\* The squad that hits the living entity at index ti in one pass over g: the
\* mobile attackers ordered onto it, within their range of it, whose cooldown
\* has run out when the pass has counted it down.
Hitting(g, ti) ==
  {i \in Idx(g.entities) :
     /\ isCombatUnit(g.entities[i].type)
     /\ g.entities[i].state = "attacking"
     /\ g.entities[i].targetId = g.entities[ti].id
     /\ MapGet(g.cds, g.entities[i].id, 0) <= 1
     /\ DistToEntity2(g.entities[i], g.entities[ti])
          <= getAttackRange(g.entities[i]) * getAttackRange(g.entities[i])}

\* No defensive building of another player reaches the entity at index ti.
OutOfDefence(g, ti) ==
  \A j \in Idx(g.entities) :
    g.entities[j].type \in {"tower", "homeBase"} /\ g.entities[j].ownerId # g.entities[ti].ownerId
      => DefenceDist2(g.entities[j], g.entities[ti]) > HOME_BASE_RANGE * HOME_BASE_RANGE

\* round(base * (1 + 0.15 * (n - 1)) * 1.12 ^ level) of the attacker at
\* index i against the target at index ti, n attackers hitting it.
FocusHit(g, i, ti, n) ==
  LET level == getPlayerUpgradeLevel(g.players[g.entities[i].ownerId], g.entities[i].type)
  IN  RoundDiv(getAttackDamage(g.entities[i], g.entities[ti]) * (100 + 15 * (n - 1)) * Pow(112, level),
               100 * Pow(100, level))

\* C11: In one combat pass every living target that n mobile attackers
\* without cooldown have in range loses the sum of their hits, each
\* round(base * (1 + 0.15 * (n - 1)) * upgrade multiplier) with n counted per
\* target, and for n >= 2 attackers of one base damage D that sum is
\* strictly greater than n * D.
C11_FocusFire ==
  procs.done =>
    \A ti \in Idx(engines.entities) :
      LET t == engines.entities[ti]
          squad == Hitting(engines, ti)
          n == Cardinality(squad)
          total == SeqSum([i \in Idx(engines.entities) |->
                             IF i \in squad THEN FocusHit(engines, i, ti, n) ELSE 0])
          left == {e \in {procs.after.entities[k] : k \in Idx(procs.after.entities)} : e.id = t.id}
      IN  t.hp > 0 /\ n >= 1 /\ OutOfDefence(engines, ti) =>
            /\ \A e \in left : e.hp = t.hp - total
            /\ left = {} <=> t.hp - total <= 0
            /\ \A D \in 0 .. BALLISTA_DAMAGE :
                 n >= 2 /\ (\A i \in squad : getAttackDamage(engines.entities[i], t) = D)
                   => total > n * D


\* The players that own a living home base in match e.
BaseOwners(e) ==
  {e.entities[i].ownerId :
     i \in {j \in Idx(e.entities) : e.entities[j].type = "homeBase" /\ e.entities[j].hp > 0}}

\* C14: When some player has no living home base and exactly one player
\* has one, a gameOver naming that player has been emitted and the match
\* no longer runs; a match that no longer runs executes no further tick; a
\* match emits at most one gameOver, and none while two players own a base.
C14_Victory ==
  /\ [](\A m \in DOMAIN engines :
          LET owners == BaseOwners(engines[m])
          IN  /\ (DOMAIN engines[m].players \ owners # {} /\ Cardinality(owners) = 1)
                   => /\ ~engines[m].running
                      /\ engines[m].h.winners = << CHOOSE p \in owners : TRUE >>
              /\ Len(engines[m].h.winners) <= 1
              /\ Cardinality(owners) >= 2 => engines[m].h.winners = << >>)
  /\ [][\A m \in DOMAIN engines :
          ~engines[m].running => /\ engines'[m].tick = engines[m].tick
                                 /\ engines'[m].entities = engines[m].entities
                                 /\ engines'[m].h.winners = engines[m].h.winners]_vars

\* p2's home base has fallen and p1 was named the winner of a halted match.
C14_Witness ==
  \E m \in DOMAIN engines :
    /\ BaseOwners(engines[m]) = {"p1"}
    /\ engines[m].h.winners = << "p1" >>
    /\ ~engines[m].running
    /\ engines[m].tick > engines[m].h.since + CommandWindow


\* C15: No dispatch of a command changes, at dispatch time, an entity owned
\* by a player other than the sender, or another player's gold, supply,
\* maxSupply or upgrades.
C15_Ownership == \A m \in DOMAIN engines : engines[m].h.foreign = {}


\* C16: Every player's gold is at least 0 in every reachable state.
C16_GoldNonNegative ==
  \A m \in DOMAIN engines :
    \A p \in DOMAIN engines[m].players : GoldGe(engines[m].players[p].gold, 0)


\* C17: The workerIds list of every gold mine holds at most maxWorkers
\* entries.
C17_MineCapacity ==
  \A m \in DOMAIN engines :
    \A k \in Idx(engines[m].goldMines) :
      Len(engines[m].goldMines[k].workerIds) <= engines[m].goldMines[k].maxWorkers

\* A worker has arrived at its target mine, which is full, and waits there.
C17_Witness ==
  \E m \in DOMAIN engines :
    \E k \in Idx(engines[m].goldMines) :
      \E i \in Idx(engines[m].entities) :
        /\ Len(engines[m].goldMines[k].workerIds) = engines[m].goldMines[k].maxWorkers
        /\ engines[m].entities[i].type = "worker"
        /\ engines[m].entities[i].targetId = engines[m].goldMines[k].id
        /\ engines[m].entities[i].state = "idle"
        /\ engines[m].entities[i].path = << >>
        /\ Within(engines[m].entities[i].x, engines[m].entities[i].y,
                  (engines[m].goldMines[k].x + 1) * Scale,
                  (engines[m].goldMines[k].y + 1) * Scale, MINE_REACH)
        /\ engines[m].tick > engines[m].h.since


\* The houses player p owns in match e, those under construction included.
Houses(e, p) ==
  {i \in Idx(e.entities) : e.entities[i].type = "house" /\ e.entities[i].ownerId = p}

\* C18: No player ever owns more than HOUSE_MAX_PER_PLAYER houses, houses
\* under construction counted.
C18_HouseCap ==
  \A m \in DOMAIN engines :
    \A p \in DOMAIN engines[m].players :
      Cardinality(Houses(engines[m], p)) <= HOUSE_MAX_PER_PLAYER


\* C19: A completed living tower or home base without cooldown damages in
\* a combat pass exactly one entity, a nearest living enemy within its
\* range, for its fixed damage; two shots of one building are never fewer
\* than its cooldown passes apart; it fires again no later than cooldown + 1
\* passes after a shot while an enemy is in range; and an unfinished tower
\* or home base never fires.
C19_Defence ==
  \A m \in DOMAIN engines :
    /\ engines[m].h.strays = {}
    /\ engines[m].h.early = {}
    /\ engines[m].h.late = {}
    /\ engines[m].h.unbuilt = {}


\* The drop-offs of the worker at index wi of g: the living, completed home
\* bases and resource depots of its owner.
DropOffs(g, wi) ==
  {j \in Idx(g.entities) :
     /\ g.entities[j].ownerId = g.entities[wi].ownerId
     /\ g.entities[j].type \in {"homeBase", "resourceDepot"}
     /\ g.entities[j].hp > 0
     /\ g.entities[j].buildProgress \in {-1} \cup {BuildDoneTicks(g.entities[j].type)}}

\* Squared distance from the centre of building b to the position of w,
\* in halves of a fixed-point unit.
Centre2(b, w) ==
  (2 * b.x + b.tileWidth * Scale - 2 * w.x) * (2 * b.x + b.tileWidth * Scale - 2 * w.x)
    + (2 * b.y + b.tileHeight * Scale - 2 * w.y) * (2 * b.y + b.tileHeight * Scale - 2 * w.y)

\* Tile t touches the footprint of building b from outside.
Beside(t, b) ==
  /\ t.x * Scale >= b.x - Scale /\ t.x * Scale <= b.x + b.tileWidth * Scale
  /\ t.y * Scale >= b.y - Scale /\ t.y * Scale <= b.y + b.tileHeight * Scale
  /\ ~(/\ t.x * Scale >= b.x /\ t.x * Scale < b.x + b.tileWidth * Scale
        /\ t.y * Scale >= b.y /\ t.y * Scale < b.y + b.tileHeight * Scale)

\* C20: A worker that finishes mining is sent back with a route that ends
\* beside a living, completed home base or resource depot of its own owner
\* whose centre is nearest to the worker.
C20_NearestDepot ==
  procs.done =>
    \A wi \in Idx(engines.entities) :
      LET w == engines.entities[wi]
          r == procs.after.entities[wi]
      IN  w.type = "worker" /\ w.state = "gathering" /\ MapGet(engines.timers, w.id, 0) = 1
            => /\ r.state = "returning"
               /\ r.path # << >>
               /\ \E j \in DropOffs(engines, wi) :
                    /\ \A k \in DropOffs(engines, wi) :
                         Centre2(engines.entities[j], w) <= Centre2(engines.entities[k], w)
                    /\ Beside(r.path[Len(r.path)], engines.entities[j])

\* The worker was sent to a depot of its own although an unfinished depot
\* of its owner or a depot of the other player was nearer to it.
C20_Witness ==
  /\ procs.done
  /\ \E wi \in Idx(engines.entities) : \E j, k \in Idx(engines.entities) :
       /\ engines.entities[wi].type = "worker"
       /\ procs.after.entities[wi].state = "returning"
       /\ procs.after.entities[wi].path # << >>
       /\ j \in DropOffs(engines, wi)
       /\ engines.entities[j].type = "resourceDepot"
       /\ Beside(procs.after.entities[wi].path[Len(procs.after.entities[wi].path)],
                 engines.entities[j])
       /\ engines.entities[k].type = "resourceDepot"
       /\ k \notin DropOffs(engines, wi)
       /\ Centre2(engines.entities[k], engines.entities[wi])
            < Centre2(engines.entities[j], engines.entities[wi])

C22_UpgradeCost ==
  \A m \in DOMAIN engines : \A u \in engines[m].h.upgraded :
     /\ u.took = ListPrice(u.level)
     /\ getPlayerUpgradeLevel([upgrades |-> u.now], u.unitType) = u.level + 1
     /\ \A t \in {"infantry", "archer", "cavalry"} \ {u.unitType} :
          getPlayerUpgradeLevel([upgrades |-> u.now], t)
            = getPlayerUpgradeLevel([upgrades |-> u.was], t)
     /\ u.total = 100 * (Pow(2, u.level + 1) - 1)

\* p1 has bought the first two infantry upgrades.
C22_Witness ==
  \E m \in DOMAIN engines :
     /\ engines[m].players["p1"].upgrades.infantry = 2
     /\ \E u \in engines[m].h.upgraded : u.level = 1 /\ u.unitType = "infantry"

\* The entity of the world g with the given id, as a set of at most one.
ById(g, id) == {e \in {g.entities[k] : k \in Idx(g.entities)} : e.id = id}

\* C23: a ballista never lowers the hit points of a unit (an entity without
\* a footprint), whatever it was ordered to attack, and an idle ballista
\* acquires only enemy buildings: after one combat pass a unit that only
\* ballistae hit, out of reach of every defensive building and with every
\* other combat unit busy elsewhere, has the hit points it had, and a ballista that was idle is idle or attacks a living
\* building of another player.
C23_Ballista ==
  procs.done =>
    /\ \A ti \in Idx(engines.entities) :
         LET t == engines.entities[ti]
             squad == Hitting(engines, ti)
         IN  (/\ ~HasFootprint(t) /\ squad # {} /\ OutOfDefence(engines, ti)
              /\ \A i \in Idx(engines.entities) :
                   isCombatUnit(engines.entities[i].type)
                     => \/ engines.entities[i].type = "ballista"
                        \/ /\ engines.entities[i].state = "attacking"
                           /\ engines.entities[i].targetId # t.id)
               => \E e \in ById(procs.after, t.id) : e.hp = t.hp
    /\ \A bi \in Idx(engines.entities) :
         LET b == engines.entities[bi]
         IN  b.type = "ballista" /\ b.state = "idle" =>
               \A a \in ById(procs.after, b.id) :
                  \/ a.state = "idle" /\ a.targetId = 0
                  \/ /\ a.state = "attacking"
                     /\ \E t \in ById(engines, a.targetId) :
                          HasFootprint(t) /\ t.ownerId # b.ownerId /\ t.hp > 0

\* A squad of ballistae has hit p2's worker, and an idle ballista that
\* stood nearer to p2's worker than to any building of p2 attacks a building.
C23_Witness ==
  /\ procs.done
  /\ \E ti \in Idx(engines.entities) :
          /\ ~HasFootprint(engines.entities[ti])
          /\ Cardinality(Hitting(engines, ti)) >= 2
          /\ \A i \in Hitting(engines, ti) : engines.entities[i].type = "ballista"
          /\ \A i \in Hitting(engines, ti) :
               MapGet(procs.after.cds, engines.entities[i].id, 0) = BALLISTA_ATTACK_COOLDOWN
  /\ \E bi \in Idx(engines.entities) :
          /\ engines.entities[bi].type = "ballista" /\ engines.entities[bi].state = "idle"
          /\ \E a \in ById(procs.after, engines.entities[bi].id) : a.state = "attacking"
          /\ \E u \in Idx(engines.entities) :
               /\ ~HasFootprint(engines.entities[u])
               /\ engines.entities[u].ownerId = "p2"
               /\ \A k \in Idx(engines.entities) :
                    HasFootprint(engines.entities[k]) /\ engines.entities[k].ownerId = "p2"
                      => DistToEntity2(engines.entities[bi], engines.entities[u])
                           < DistToEntity2(engines.entities[bi], engines.entities[k])

\* The worker w waits at the mine M: idle beside it with M as its target.
WaitsAt(w, M) ==
  /\ w.type = "worker" /\ w.state = "idle" /\ w.path = << >> /\ w.targetId = M.id
  /\ (w.x - (M.x + 1) * Scale) * (w.x - (M.x + 1) * Scale)
       + (w.y - (M.y + 1) * Scale) * (w.y - (M.y + 1) * Scale) <= 9 * Scale * Scale

\* The ids in a mine.
Inside(M) == {M.workerIds[k] : k \in Idx(M.workerIds)}

\* C24: a worker waiting beside its target mine stays idle with its target
\* on every tick on which the mine is full, and starts gathering once the
\* mine has free capacity and gold, without a new command.  Over a tick that
\* drains no command: the waiting worker ends the tick waiting or gathering
\* in the mine; it ends it waiting when the mine started full and kept its
\* occupants; it ends it gathering when the mine started with free capacity
\* and gold, unless another worker filled the mine in that tick.
C24_WaitsThenGathers ==
  [][\A m \in DOMAIN engines : \A i \in Idx(engines[m].entities) :
       LET w == engines[m].entities[i]
           mi == MineIdx(engines[m], w.targetId)
           M == engines[m].goldMines[mi]
           N == engines'[m].goldMines[mi]
       IN  (/\ engines'[m].tick = engines[m].tick + 1
            /\ ~procs'[engines[m].proc].crashed
            /\ engines[m].commandQueue = << >> /\ DOMAIN engines[m].bots = {}
            /\ mi # 0 /\ WaitsAt(w, M))
           => \A a \in ById(engines'[m], w.id) :
                /\ \/ WaitsAt(a, N) /\ a.id \notin Inside(N)
                   \/ a.state = "gathering" /\ a.targetId = M.id /\ a.id \in Inside(N)
                /\ (Len(M.workerIds) >= M.maxWorkers /\ Inside(M) \subseteq Inside(N))
                     => WaitsAt(a, N)
                /\ (Len(M.workerIds) < M.maxWorkers /\ M.goldRemaining > 0)
                     => a.state = "gathering" \/ Len(N.workerIds) >= N.maxWorkers]_vars

\* No command was dispatched, and the worker that waited beside the full
\* mine is now gathering in it.
C24_Witness ==
  \E m \in DOMAIN engines :
     /\ engines[m].h.fixture = "queue" /\ engines[m].h.dispatched = 0
     /\ engines[m].goldMines[2].workerIds = << engines[m].entities[2].id >>
     /\ engines[m].entities[2].state = "gathering"
     /\ engines[m].tick > MidGame + 3

\* C25: training is first in, first out with one countdown.  Over a tick, in
\* every completed building: the head order of its queue loses one tick and
\* is popped when it reaches zero; the orders behind it keep their place and
\* their ticksRemaining; an order queued in the tick stands behind them with
\* the train ticks of its type (less one when it is the head of the queue in
\* the economy pass of that tick); and the building is idle when its last
\* order was popped.
C25_TrainingFifo ==
  [][\A m \in DOMAIN engines : \A i \in Idx(engines[m].entities) :
       LET b == engines[m].entities[i]
           q == b.trainingQueue
           n == Len(q)
           k == IF n >= 1 /\ q[1].ticksRemaining <= 1 THEN 1 ELSE 0
       IN  (/\ engines'[m].tick = engines[m].tick + 1
            /\ ~procs'[engines[m].proc].crashed
            /\ HasFootprint(b) /\ ~Unfinished(b))
           => \A a \in ById(engines'[m], b.id) :
                /\ Len(a.trainingQueue) >= n - k
                /\ \A j \in 2 .. n : a.trainingQueue[j - k] = q[j]
                /\ n >= 1 /\ k = 0 =>
                     a.trainingQueue[1] = [q[1] EXCEPT !.ticksRemaining = @ - 1]
                /\ \A j \in (n - k + 1) .. Len(a.trainingQueue) :
                     a.trainingQueue[j].ticksRemaining
                       = getUnitTrainStats(a.trainingQueue[j].unitType).trainTicks
                           - (IF j = 1 THEN 1 ELSE 0)
                /\ k = 1 /\ a.trainingQueue = << >> => a.state = "idle"]_vars

\* p1's home base has trained the two workers it was paid for, the second
\* one train time after the first, and is idle again.
C25_Witness ==
  \E m \in DOMAIN engines :
     /\ engines[m].h.fixture = "drill"
     /\ engines[m].entities[1].trainingQueue = << >>
     /\ engines[m].entities[1].state = "idle"
     /\ engines[m].tick = MidGame + 2 + WORKER_TRAIN_TICKS
     /\ Cardinality({i \in Idx(engines[m].entities) :
                       engines[m].entities[i].type = "worker"
                       /\ engines[m].entities[i].ownerId = "p1"}) = 3

\* The tile t touches the footprint of the building b.
Touches(t, b) ==
  /\ t.x >= b.x \div Scale - 1 /\ t.x <= b.x \div Scale + b.tileWidth
  /\ t.y >= b.y \div Scale - 1 /\ t.y <= b.y \div Scale + b.tileHeight
  /\ t \notin FootprintTiles(b.x \div Scale, b.y \div Scale, b.tileWidth, b.tileHeight)

\* C26: every training order whose ticksRemaining reaches zero adds exactly
\* one unit of the ordered type, owned by the building's owner, on a
\* walkable tile beside the building, and is popped: over a tick, the units
\* that appear are as many as the completed buildings whose head order had
\* one tick left, and each such building has its unit beside it.
C26_UnitPerOrder ==
  [][\A m \in DOMAIN engines :
       LET e == engines[m]
           pops == {i \in Idx(e.entities) :
                      /\ HasFootprint(e.entities[i]) /\ ~Unfinished(e.entities[i])
                      /\ e.entities[i].hp > 0
                      /\ Len(e.entities[i].trainingQueue) >= 1
                      /\ e.entities[i].trainingQueue[1].ticksRemaining <= 1}
           born == {j \in Idx(engines'[m].entities) :
                      /\ IsUnitType(engines'[m].entities[j].type)
                      /\ EntIdx(e, engines'[m].entities[j].id) = 0}
       IN  (engines'[m].tick = e.tick + 1 /\ ~procs'[e.proc].crashed)
           => /\ Cardinality(born) = Cardinality(pops)
              /\ \A i \in pops : \E j \in born :
                   LET u == engines'[m].entities[j]
                   IN  /\ u.type = e.entities[i].trainingQueue[1].unitType
                       /\ u.ownerId = e.entities[i].ownerId
                       /\ Touches(TileOf(u), e.entities[i])
                       /\ TileOf(u) \in buildWalkableGrid(engines'[m])]_vars

\* The tiles under the building b.
Under(b) ==
  FootprintTiles(RoundTile(b.x), RoundTile(b.y), b.tileWidth, b.tileHeight)

\* C27: in every reachable state the footprint of every building lies
\* inside the map and overlaps neither the footprint of another building
\* nor the 2 x 2 footprint of a gold mine.
C27_FootprintLegal ==
  \A m \in DOMAIN engines :
    LET e == engines[m]
        B == {i \in Idx(e.entities) : HasFootprint(e.entities[i])}
    IN  \A i \in B :
          /\ Under(e.entities[i]) \subseteq AllTiles
          /\ \A j \in B \ {i} : Under(e.entities[i]) \cap Under(e.entities[j]) = {}
          /\ \A k \in Idx(e.goldMines) :
               Under(e.entities[i])
                 \cap FootprintTiles(e.goldMines[k].x, e.goldMines[k].y,
                                     GOLD_MINE_TILE_WIDTH, GOLD_MINE_TILE_HEIGHT) = {}

\* C28: after processMovement, an entity whose path became empty in that
\* pass is idle if its state was moving and keeps its state if it was
\* returning or attacking; an entity with a footprint, with an empty path,
\* or in a state other than moving, returning or attacking keeps its
\* position, path and state.
C28_MovementFrame ==
  procs.done =>
    /\ Len(procs.after.entities) = Len(engines.entities)
    /\ \A i \in Idx(engines.entities) :
         LET b == engines.entities[i]
             a == procs.after.entities[i]
         IN  /\ (b.path # << >> /\ a.path = << >>)
                  => /\ b.state = "moving" => a.state = "idle"
                     /\ b.state \in {"returning", "attacking"} => a.state = b.state
             /\ (\/ HasFootprint(b) \/ b.path = << >>
                 \/ b.state \notin {"moving", "returning", "attacking"})
                  => a.x = b.x /\ a.y = b.y /\ a.path = b.path /\ a.state = b.state

\* A moving unit reached the end of its path and is idle, while the house,
\* marked moving with a path, stayed as it was.
C28_Witness ==
  /\ procs.done
  /\ \E i, j \in Idx(engines.entities) :
       /\ engines.entities[i].state = "moving" /\ engines.entities[i].path # << >>
       /\ ~HasFootprint(engines.entities[i])
       /\ procs.after.entities[i].path = << >> /\ procs.after.entities[i].state = "idle"
       /\ HasFootprint(engines.entities[j])
       /\ engines.entities[j].state = "moving" /\ engines.entities[j].path # << >>
       /\ procs.after.entities[j] = engines.entities[j]

\* The world pass 1 of processCombat starts on: auto-aggro and the
\* defensive buildings have acted.
Shot(g) ==
  Defended(g, DefenceLoop([ents |-> AggroLoop(g.entities, 1), cds |-> TickCooldowns(g.cds)], 1))

\* The attacker u has no way to its living target t in the world g: no
\* path to the target's tile, or to any free tile around its footprint.
NoWay(g, u, t) ==
  LET walkable == buildWalkableGrid(g)
      around == findAllAdjacentWalkable(walkable, t.x, t.y, t.tileWidth, t.tileHeight)
      dests == IF HasFootprint(t) THEN {around[k] : k \in Idx(around)} ELSE {TileOf(t)}
  IN  \A d \in dests : d # TileOf(u) /\ findPath(walkable, TileOf(u), d) = << >>

\* C29: a combat unit in state attacking whose target is gone or has
\* hp <= 0, or that has no targetId, is idle with no targetId after the
\* combat pass, and so is one that stands still out of range of a target it
\* has no way to; after every combat pass no combat unit is attacking
\* without a targetId.
C29_LosesTarget ==
  procs.done =>
    LET mid == Shot(engines)
    IN  /\ \A i \in Idx(engines.entities) :
             LET b == mid.entities[i]
                 ti == EntIdx(mid, b.targetId)
                 t == mid.entities[ti]
                 ai == EntIdx(procs.after, b.id)
                 a == procs.after.entities[ai]
                 lost == b.targetId = 0 \/ ti = 0 \/ t.hp <= 0
                 far == DistToEntity2(b, t) > getAttackRange(b) * getAttackRange(b)
             IN  (/\ isCombatUnit(b.type) /\ engines.entities[i].state = "attacking"
                  /\ ai # 0
                  /\ \/ lost
                     \/ ~lost /\ far /\ b.path = << >> /\ NoWay(mid, b, t))
                 => a.state = "idle" /\ a.targetId = 0
        /\ \A j \in Idx(procs.after.entities) :
             (/\ isCombatUnit(procs.after.entities[j].type)
              /\ procs.after.entities[j].state = "attacking")
             => procs.after.entities[j].targetId # 0

\* Of two attackers the first was after an entity that is gone and the
\* second after the house outside the ring of rock: both are idle with no target.
C29_Witness ==
  /\ procs.done
  /\ engines.h.fixture = "chase" /\ engines.nonGrass = Rock("wall")
  /\ \E i, j \in Idx(engines.entities) :
       /\ engines.entities[i].state = "attacking" /\ engines.entities[i].targetId = 99
       /\ engines.entities[j].state = "attacking" /\ engines.entities[j].targetId = 8
       /\ \A k \in {i, j} :
            /\ ById(procs.after, engines.entities[k].id) # {}
            /\ \A a \in ById(procs.after, engines.entities[k].id) :
                 a.state = "idle" /\ a.targetId = 0

\* The unit 10 is attacking a living target that is out of its range.
Chasing ==
  LET a == EntIdx(engines, 10)
      u == engines.entities[a]
      ti == EntIdx(engines, u.targetId)
  IN  /\ a # 0 /\ u.state = "attacking" /\ ti # 0
      /\ engines.entities[ti].hp > 0
      /\ DistToEntity2(u, engines.entities[ti]) > getAttackRange(u) * getAttackRange(u)

\* The unit 10 has just lowered its target's hit points, is idle, or is gone.
Settled ==
  \/ procs.struck
  \/ EntIdx(engines, 10) = 0
  \/ engines.entities[EntIdx(engines, 10)].state = "idle"

\* C30: a combat unit in state attacking whose stationary target is out of
\* range eventually damages the target or is returned to idle; it never
\* stays attacking forever without dealing damage.  The ticks are
\* deterministic, so a tick that leaves the world of a chasing unit exactly
\* as it was repeats for ever: no tick of a chasing unit does so.
C30_ChaseEnds ==
  [][~(Chasing /\ ~Settled /\ engines' = engines /\ ~procs'.struck)]_vars

\* The supply and the maxSupply the entities of g give the player p.
SupplyOf(g, p) ==
  SeqSum([i \in Idx(g.entities) |->
            IF g.entities[i].ownerId = p /\ IsUnitType(g.entities[i].type)
            THEN UnitSupply(g.entities[i].type) ELSE 0])

MaxSupplyOf(g, p) ==
  SeqSum([i \in Idx(g.entities) |->
            IF g.entities[i].ownerId # p \/ g.entities[i].hp <= 0 THEN 0
            ELSE IF g.entities[i].type = "homeBase" THEN HOME_BASE_SUPPLY
            ELSE IF g.entities[i].type = "house" /\ ~Unfinished(g.entities[i]) THEN HOUSE_SUPPLY
            ELSE 0])

\* C31: at the end of every combat pass no entity with hp <= 0 remains and
\* the attack-cooldown entry of every removed entity is deleted; if an
\* entity was removed in the pass, every player's supply and maxSupply are
\* those the surviving entities give.
C31_DeadRemoved ==
  [][LET removed == {engines.entities[i].id : i \in Idx(engines.entities)}
                      \ {engines'.entities[i].id : i \in Idx(engines'.entities)}
     IN  /\ \A i \in Idx(engines'.entities) : engines'.entities[i].hp > 0
         /\ removed \cap DOMAIN engines'.cds = {}
         /\ removed # {} =>
              \A p \in DOMAIN engines'.players :
                 /\ engines'.players[p].supply = SupplyOf(engines', p)
                 /\ engines'.players[p].maxSupply = MaxSupplyOf(engines', p)]_vars

\* The unit has destroyed the house and has been killed in its turn: it is
\* gone with its cooldown entry and p1's supply is that of its worker.
C31_Witness ==
  /\ engines.h.fixture = "pursuit"
  /\ EntIdx(engines, 8) = 0 /\ EntIdx(engines, 10) = 0
  /\ 10 \notin DOMAIN engines.cds
  /\ engines.players["p1"].supply = WORKER_SUPPLY

\* The tile the k-th step of the route path walked from start leaves.
From(start, path, k) == IF k = 1 THEN start ELSE path[k - 1]

\* C32: every non-empty path returned by findPath excludes the start tile,
\* ends at the destination, moves between 8-adjacent tiles starting from a
\* neighbour of the start, visits only walkable tiles, and contains no
\* diagonal step whose two flanking orthogonal tiles are both blocked.
C32_PathShape ==
  (procs.done /\ procs.path # << >>) =>
    LET path == procs.path
    IN  /\ \A k \in Idx(path) : path[k] # engines.start
        /\ path[Len(path)] = engines.ends
        /\ \A k \in Idx(path) :
             LET a == From(engines.start, path, k)
                 b == path[k]
             IN  /\ Max(Abs(a.x - b.x), Abs(a.y - b.y)) = 1
                 /\ b \in engines.walkable
                 /\ (a.x # b.x /\ a.y # b.y)
                      => (Pt(a.x, b.y) \in engines.walkable \/ Pt(b.x, a.y) \in engines.walkable)

\* A returned route of at least two steps, one of them diagonal, on a grid
\* with a blocked tile.
C32_Witness ==
  /\ procs.done /\ Len(procs.path) >= 2
  /\ engines.walkable # PathSquare
  /\ \E k \in Idx(procs.path) :
       /\ From(engines.start, procs.path, k).x # procs.path[k].x
       /\ From(engines.start, procs.path, k).y # procs.path[k].y

\* C33: the bot is throttled.  A tick in which the bots push commands is
\* tick 5 or later, lies at least DECISION_INTERVAL ticks after the previous
\* decision pass of a bot that decides in it and after the previous tick in
\* which bots pushed commands; a bot whose previous pass is fewer than
\* DECISION_INTERVAL ticks back does not decide, and when none decides
\* nothing is pushed.
C33_BotThrottled ==
  [][\A m \in DOMAIN engines :
       (/\ m \in DOMAIN engines'
        /\ engines'[m].tick = engines[m].tick + 1)
         => LET now == engines'[m].tick
                last == engines[m].bots
                pushed == engines'[m].h.queued > engines[m].h.queued
                decided == {b \in DOMAIN last : engines'[m].bots[b] # last[b]}
            IN  /\ \A b \in DOMAIN last :
                     /\ now - last[b] < DECISION_INTERVAL => b \notin decided
                     /\ b \in decided => engines'[m].bots[b] = now
                /\ pushed =>
                     /\ now >= DECISION_INTERVAL
                     /\ decided # {}
                     /\ engines[m].h.botTick = 0
                          \/ now - engines[m].h.botTick >= DECISION_INTERVAL
                     /\ engines'[m].h.botTick = now
                /\ ~pushed => engines'[m].h.botTick = engines[m].h.botTick]_vars

\* C33 witness: the bot pushed commands in tick 5 and again in tick 10, and
\* a tick in between has passed without.
C33_Witness ==
  \E m \in DOMAIN engines :
    /\ engines[m].h.fixture = "fresh"
    /\ engines[m].tick = 2 * DECISION_INTERVAL + 1
    /\ engines[m].h.botTick = 2 * DECISION_INTERVAL
    /\ engines[m].bots["p2"] = 2 * DECISION_INTERVAL
    /\ engines[m].h.queued - engines[m].h.issued >= 2

\* The supply of the orders in the training queues of the entities of p.
ReservedOf(g, p) ==
  SeqSum([i \in Idx(g.entities) |->
            IF g.entities[i].ownerId # p THEN 0
            ELSE SeqSum([k \in Idx(g.entities[i].trainingQueue) |->
                           getUnitTrainStats(g.entities[i].trainingQueue[k].unitType).supplyCost])])

\* C34: at the end of every tick the supply of a player is the supply of
\* the player's living units plus the supply of every order still in the
\* player's training queues.
C34_SupplyReserved ==
  \A m \in DOMAIN engines :
    ~procs[engines[m].proc].crashed =>
      \A p \in DOMAIN engines[m].players :
        engines[m].players[p].supply
          = SupplyOf(engines[m], p) + ReservedOf(engines[m], p)

\* C35: a worker id is listed in the workerIds of a gold mine only if that
\* worker exists and is in state gathering, and it is listed in at most one
\* mine and once.
C35_OccupantsGather ==
  \A m \in DOMAIN engines :
    LET g == engines[m]
        listed == {<< k, j >> : k \in Idx(g.goldMines), j \in 1 .. GOLD_MINE_MAX_WORKERS}
        at(c) == g.goldMines[c[1]].workerIds[c[2]]
        on == {c \in listed : c[2] <= Len(g.goldMines[c[1]].workerIds)}
    IN  ~procs[g.proc].crashed =>
          /\ \A c \in on :
               /\ EntIdx(g, at(c)) # 0
               /\ g.entities[EntIdx(g, at(c))].type = "worker"
               /\ g.entities[EntIdx(g, at(c))].state = "gathering"
          /\ \A c, d \in on : at(c) = at(d) => c = d

\* The entities of g at which the player ownerId may drop gold off from the
\* tile at: the living, completed home bases and resource depots of that
\* player whose footprint the tile touches.
DropOffsAt(g, ownerId, at) ==
  {j \in Idx(g.entities) :
     /\ g.entities[j].ownerId = ownerId
     /\ g.entities[j].type \in {"homeBase", "resourceDepot"}
     /\ g.entities[j].hp > 0
     /\ ~Unfinished(g.entities[j])
     /\ Beside(at, g.entities[j])}

\* C36: carried gold is credited only while the worker stands on a tile
\* beside a living, completed home base or resource depot of its owner (one
\* that is so before the tick or after it).
C36_CreditAtDepot ==
  [][\A m \in DOMAIN engines :
       (/\ m \in DOMAIN engines'
        /\ engines'[m].tick = engines[m].tick + 1)
         => \A r \in engines'[m].h.paid :
              \/ DropOffsAt(engines[m], r.ownerId, r.at) # {}
              \/ DropOffsAt(engines'[m], r.ownerId, r.at) # {}]_vars

\* The entities of g of another owner than t that may have struck t in a
\* pass of the tick that starts in g: the mobile attackers, and the towers
\* and home bases within a tile of their range of t.
Foes(g, t) ==
  {j \in Idx(g.entities) :
     /\ g.entities[j].ownerId # t.ownerId
     /\ \/ isCombatUnit(g.entities[j].type)
        \/ /\ g.entities[j].type \in {"tower", "homeBase"}
           /\ DefenceDist2(g.entities[j], t)
                <= (HOME_BASE_RANGE + Scale) * (HOME_BASE_RANGE + Scale)}

\* C37: no friendly fire.  Hit points are lost to attackers only, so an
\* entity that loses hit points or dies in a tick has an entity of another
\* owner that could strike it.
C37_NoFriendlyFire ==
  [][\A m \in DOMAIN engines :
       (/\ m \in DOMAIN engines'
        /\ engines'[m].tick = engines[m].tick + 1)
         => \A ti \in Idx(engines[m].entities) :
              LET t == engines[m].entities[ti]
              IN  (t.hp > 0 /\ HpOf(engines'[m], t.id) < t.hp) => Foes(engines[m], t) # {}]_vars

\* C38: a match in which a home base is destroyed terminates.  At the end
\* of the tick in which a player comes to own no living home base, gameOver
\* has been emitted and the scheduler is halted, also when both home bases
\* fall in the same combat pass.
C38_BaseLossEnds ==
  \A m \in DOMAIN engines :
    (/\ ~procs[engines[m].proc].crashed
     /\ DOMAIN engines[m].players \ BaseOwners(engines[m]) # {})
      => /\ engines[m].h.gameOver
         /\ ~engines[m].running

\* C39: an entity with hp <= 0 deals no damage.  A living target out of
\* the reach of defensive buildings, all of whose attackers fall in the pass
\* without a mobile attacker hitting them (so to the defensive fire that
\* precedes the targeting), keeps its hit points.
C39_DeadDealNothing ==
  procs.done =>
    \A ti \in Idx(engines.entities) :
      LET t == engines.entities[ti]
          squad == Hitting(engines, ti)
      IN  (/\ t.hp > 0 /\ squad # {} /\ OutOfDefence(engines, ti)
           /\ \A i \in squad : /\ EntIdx(procs.after, engines.entities[i].id) = 0
                                /\ Hitting(engines, i) = {})
            => HpOf(procs.after, t.id) = t.hp

\* The mine at tile m covers a part of the 3 x 3 footprint of the home base
\* placed at the spawn point sp.
OnBase(m, sp) ==
  /\ m.x * Scale < sp.x + HOME_BASE_TILE_WIDTH * Scale /\ sp.x < (m.x + 2) * Scale
  /\ m.y * Scale < sp.y + HOME_BASE_TILE_HEIGHT * Scale /\ sp.y < (m.y + 2) * Scale

\* The mine at tile m lies 6 to 9 tiles right of and below the tile of sp.
NearSpawn(m, sp) ==
  /\ m.x - sp.x \div Scale \in 6 .. 9
  /\ m.y - sp.y \div Scale \in 6 .. 9

\* C40: in the map generateMap returns for 2 or 4 players no mine overlaps
\* the footprint of a home base at a spawn point, no two mines overlap, and
\* exactly one mine lies 6 to 9 tiles on each axis from each spawn point.
C40_MinesClear ==
  procs.at = "returned" =>
    LET mines == engines.goldMines
    IN  /\ \A k \in Idx(mines) : \A i \in Idx(engines.spawnPoints) :
             ~OnBase(mines[k], engines.spawnPoints[i])
        /\ \A k, l \in Idx(mines) :
             k # l => Abs(mines[k].x - mines[l].x) >= 2 \/ Abs(mines[k].y - mines[l].y) >= 2
        /\ \A i \in Idx(engines.spawnPoints) :
             Cardinality({k \in Idx(mines) : NearSpawn(mines[k], engines.spawnPoints[i])}) = 1

====
